---- MODULE Spec2Model ----
(***************************************************************************)
(* A model of the localization pipeline's translator (scripts/             *)
(* translate-text.js, class AITranslator) and replacer (scripts/           *)
(* replace-text.js, class TextReplacer).                                   *)
(*                                                                         *)
(* JavaScript strings are modelled as sequences of one-character strings,  *)
(* so that trimming, quote stripping, key formatting and substring         *)
(* replacement are computed the way the code computes them.                *)
(***************************************************************************)
EXTENDS Integers, Sequences, FiniteSets, TLC

VARIABLES
  \* ---- the working directory (files shared by the stages)
  extractedFile,     \* extracted-text.json: [exists, texts]
  cacheFile,         \* translation-cache.json: [kind, cache]
  translationsFile,  \* translations.json: [exists, metadata, translations]
  mappingFile,       \* translation-mapping.json: [exists, entries]
  \* ---- the AITranslator object and the position of translateTexts
  pc,                \* "idle" | "constructed" | "batch" | "indiv" | "done" | "aborted"
  runs,              \* number of AITranslator objects constructed so far
  requestLog,        \* this run's provider requests and awaited delays, in order
  awaiting,          \* translateTexts is suspended at the await of callOpenAI
  outstanding,       \* number of requests sent and not yet answered
  model,             \* this.model
  targetLanguage,    \* this.targetLanguage
  cache,             \* this.cache (Map: cache key -> entry)
  translations,      \* this.translations (Map in insertion order: sequence of results)
  processedCount,    \* this.processedCount
  totalCount,        \* this.totalCount
  cacheHits,         \* this.cacheHits
  apiCalls,          \* this.apiCalls
  batches,           \* the batches created by translateTexts
  batchIdx,          \* index of the batch being translated (1-based)
  itemIdx,           \* index of the item inside translateBatchIndividually (1-based)
  saved,             \* TRUE once this run executed saveCache and saveTranslations
  \* ---- the source tree, the backup directory and the TextReplacer object
  srcTree,           \* content of every file under sourceDir (file id -> string)
  backup,            \* `${sourceDir}-backup`: [exists, files (file id -> string)]
  rpc,               \* "idle" | "loaded" | "process" | "done" | "aborted"
  rruns,             \* number of TextReplacer objects constructed so far
  replacements,      \* this.replacements (Map in insertion order: sequence of pairs)
  fileIdx,           \* position of processDirectory in its walk (1-based)
  reportData,        \* this.reportData: [filesProcessed, totalReplacements, fileChanges]
  totalReplacements, \* this.totalReplacements
  reportFile,        \* replacement-report.json / replacement-summary.md: [exists, data]
  runStart,          \* history: the source tree and the backup directory as they
                     \* were when the current replacer run started
  written,           \* the files the current run wrote with writeFileSync
  warned,            \* the files for which the current run's processFile logged
                     \* "Error processing"
  \* ---- one call of translateBatch's success path, taken alone
  call,              \* [phase ("none" | "request" | "stored"), batch, response,
                     \*  parsed, translations]
  \* ---- the extractor (TextExtractor or VueSFCExtractor) and its source directory
  extractor,         \* "TextExtractor" | "VueSFCExtractor": the script that is run
  sourceDir,         \* [exists, entries (the root listing), contents (path -> content)]
  epc,               \* "off" | "idle" | "scan" | "done" | "aborted"
  scanList,          \* the files scanDirectory hands to processFile, in order
  scanIdx,           \* position in scanList (1-based)
  extractedTexts,    \* this.extractedTexts: sequence of [text, file, context]
  processedFiles,    \* this.processedFiles
  failedFiles,       \* the files for which a processing error was logged
  \* ---- the clock, for the time stamp saveCache writes
  now,               \* new Date(), in milliseconds
  lastUpdated,       \* the lastUpdated field of translation-cache.json
  sinceSave,         \* "none" | "saved" | "dirty": whether setCachedTranslation
                     \* was called since the last saveCache
  \* ---- one run of the workflow (workflow_dispatch)
  wf                 \* [dryRun, step, failed, replaced, translated, builds, released]

tvars == <<extractedFile, cacheFile, translationsFile, mappingFile, pc, runs,
          requestLog, awaiting, outstanding, model,
           targetLanguage, cache, translations, processedCount, totalCount,
           cacheHits, apiCalls, batches, batchIdx, itemIdx, saved>>

rvars == <<srcTree, backup, rpc, rruns, replacements, fileIdx, reportData,
           totalReplacements, reportFile, runStart, written, warned>>

svars == <<now, lastUpdated, sinceSave>>

cvars == <<call, svars, wf>>

evars == <<extractor, sourceDir, epc, scanList, scanIdx, extractedTexts, processedFiles,
           failedFiles>>

-----------------------------------------------------------------------------
(* Bounds of the model *)

\* longest extracted list
MaxTexts == 3
\* AITranslator objects constructed (pipeline runs) in one behaviour
MaxRuns == 2
\* batch size; the code passes 10 (translate-text.js:166), scaled down so that
\* a list of MaxTexts items makes more than one batch
BatchSize == 2
\* TextReplacer objects constructed (runs of replace-text.js) in one behaviour
MaxReplacerRuns == 2
MaxClock == 2

-----------------------------------------------------------------------------
(* JavaScript string helpers *)

\* null / undefined, distinct from every string (whose elements are single characters)
Null == <<"<null>">>

\* JavaScript truthiness of a string-or-null value
Truthy(v) == v # Null /\ v # <<>>

IsSpace(c) == c = " "

IsQuote(c) == c \in {"'", "\""}

IsDigit(c) == c \in {"0", "1", "2", "3", "4", "5", "6", "7", "8", "9"}

RECURSIVE TrimStart(_)
TrimStart(s) == IF s # <<>> /\ IsSpace(Head(s)) THEN TrimStart(Tail(s)) ELSE s

RECURSIVE TrimEnd(_)
TrimEnd(s) ==
  IF s # <<>> /\ IsSpace(s[Len(s)]) THEN TrimEnd(SubSeq(s, 1, Len(s) - 1)) ELSE s

\* String.prototype.trim
Trim(s) == TrimEnd(TrimStart(s))

\* s.replace(/^["']|["']$/g, ''): one leading and one trailing quote are removed
StripQuotes(s) ==
  LET a == IF s # <<>> /\ IsQuote(Head(s)) THEN Tail(s) ELSE s
  IN  IF a # <<>> /\ IsQuote(a[Len(a)]) THEN SubSeq(a, 1, Len(a) - 1) ELSE a

\* a Map / plain object with no entries
EmptyMap == [k \in {} |-> <<>>]

\* Map.prototype.set on a keyed map
MapPut(m, k, v) == [x \in DOMAIN m \cup {k} |-> IF x = k THEN v ELSE m[x]]

-----------------------------------------------------------------------------
(* The environment of a translator run *)

\* process.env.OPENAI_MODEL: "m1" stands for the default gpt-4o-mini, "m2" for gpt-4
GptMini == <<"m", "1">>
Gpt4 == <<"m", "2">>
\* process.env.TARGET_LANGUAGE
Chinese == <<"z", "h">>
Japanese == <<"j", "a">>

\* the (model, targetLanguage) configurations a run is started with
Configs == {<<GptMini, Chinese>>, <<Gpt4, Chinese>>, <<GptMini, Japanese>>}

\* texts and context tags the extractor produced
TextPool == << <<"a", "b">>, <<"c">> >>
ContextPool == << <<"t">>, <<"s">> >>

\* the i-th entry of extracted-text.json; the extractors deduplicate, so no two
\* entries share both text and context (the same text may occur in two contexts)
ItemAt(i) ==
  [text    |-> TextPool[((i - 1) % 2) + 1],
   context |-> ContextPool[(((i - 1) \div 2) % 2) + 1]]

ExtractedLists == {[i \in 1..n |-> ItemAt(i)] : n \in 0..MaxTexts}

\* what the provider may put on a line of a batch response
Label(n) == << <<"1", "2", "3", "4", "5", "6", "7", "8", "9">>[n], ".", " " >>
Quoted(s) == <<"\"">> \o s \o <<"\"">>
\* a translation the provider produced for the item it labels n
TranslationOf(n) == <<"Y", Label(n)[1]>>
JunkLine == <<"o", "k">>

LineBodies(batch, n) ==
  {Quoted(TranslationOf(n)), Quoted(<<>>), Quoted(batch[n].text)}

ResponseLines(batch) ==
  {JunkLine} \cup
  UNION {{Label(n) \o b : b \in LineBodies(batch, n)} : n \in 1..Len(batch)}

\* the successful responses to a batch request: the message content split at '\n'
BatchResponses(batch) ==
  UNION {[1..k -> ResponseLines(batch)] : k \in 0..Len(batch)}

\* the message contents of a successful individual request for `text`
SingleResponses(text) ==
  {<<"X">>, Quoted(<<"X">>), <<" ">>, Quoted(<<>>), Quoted(text)}

-----------------------------------------------------------------------------
(* AITranslator: the cache *)

\* getCacheKey(text, context): `${text}|${this.model}|${this.targetLanguage}|${context}`
getCacheKey(text, context) ==
  text \o <<"|">> \o model \o <<"|">> \o targetLanguage \o <<"|">> \o context

\* the entry setCachedTranslation builds (createdAt, a timestamp, is not modelled)
CacheEntry(text, translated, context) ==
  [original |-> text, translated |-> translated, context |-> context,
   model |-> model, targetLanguage |-> targetLanguage]

\* loadCache without the filter on model and targetLanguage
loadCacheUnfiltered(file, m, l) ==
  IF file.kind = "valid" THEN file.cache ELSE EmptyMap

\* an entry of the cache file that is null
NullEntry == [null |-> TRUE]

\* the file has version and a cache object, and reading entry.model of one of
\* its entries throws
HasNullEntry(file) ==
  file.kind = "valid" /\ \E k \in DOMAIN file.cache : file.cache[k] = NullEntry

\* loadCache without the catch block's this.cache.clear(): the entries set
\* before the null one stay loaded (here: all others)
loadCacheNoClear(file, m, l) ==
  IF file.kind = "valid"
  THEN LET keep == {k \in DOMAIN file.cache :
                      /\ file.cache[k] # NullEntry
                      /\ file.cache[k].model = m
                      /\ file.cache[k].targetLanguage = l}
       IN  [k \in keep |-> file.cache[k]]
  ELSE EmptyMap

\* loadCache: the entries of the file whose model and targetLanguage fields
\* equal the configuration (m, l); no file, an unreadable one or one without
\* version loads nothing, and a null entry throws into the catch block, which
\* clears the map
loadCache(file, m, l) ==
  IF file.kind = "valid" /\ ~HasNullEntry(file)
  THEN LET keep == {k \in DOMAIN file.cache :
                      /\ file.cache[k].model = m
                      /\ file.cache[k].targetLanguage = l}
       IN  [k \in keep |-> file.cache[k]]
  ELSE EmptyMap

\* saveCache without the merge: the file holds the in-memory entries only
saveCacheOverwrite(file, c) == [kind |-> "valid", cache |-> c]

\* saveCache: the file's entries, overwritten and extended by the in-memory ones
saveCache(file, c) ==
  LET existingCache == IF file.kind \in {"valid", "noversion"} THEN file.cache
                       ELSE EmptyMap
  IN  [kind  |-> "valid",
       cache |-> [k \in DOMAIN existingCache \cup DOMAIN c |->
                    IF k \in DOMAIN c THEN c[k] ELSE existingCache[k]]]

\* getCachedTranslation's return value (its cacheHits++ is done by the callers below)
getCachedTranslation(c, text, context) ==
  LET key == getCacheKey(text, context)
  IN  IF key \in DOMAIN c /\ Truthy(c[key].translated)
      THEN c[key].translated
      ELSE Null

\* setCachedTranslation
setCachedTranslation(c, text, translated, context) ==
  MapPut(c, getCacheKey(text, context), CacheEntry(text, translated, context))

\* separateCachedTexts
separateCachedTexts(c, texts) ==
  [cachedTexts   |-> SelectSeq(texts, LAMBDA t :
                        Truthy(getCachedTranslation(c, t.text, t.context))),
   uncachedTexts |-> SelectSeq(texts, LAMBDA t :
                        ~Truthy(getCachedTranslation(c, t.text, t.context)))]

\* createBatches without the slicing: one batch holding every text
createBatchesWhole(texts, batchSize) == <<texts>>

\* createBatches
createBatches(texts, batchSize) ==
  [b \in 1..((Len(texts) + batchSize - 1) \div batchSize) |->
     SubSeq(texts, (b - 1) * batchSize + 1,
            IF b * batchSize < Len(texts) THEN b * batchSize ELSE Len(texts))]

-----------------------------------------------------------------------------
(* AITranslator: results *)

\* one TranslationResult (files, the provenance list, is not modelled; an absent
\* error flag is error = FALSE)
Result(item, translated, fromCache, error) ==
  [original |-> item.text, translated |-> translated, context |-> item.context,
   fromCache |-> fromCache, error |-> error]

\* this.translations.set(r.original, r): a Map keeps the position of a key it holds
TranslationsSet(ts, r) ==
  IF \E i \in 1..Len(ts) : ts[i].original = r.original
  THEN [i \in 1..Len(ts) |-> IF ts[i].original = r.original THEN r ELSE ts[i]]
  ELSE Append(ts, r)

\* line.match(/^\d+\.\s*(.+)$/) followed by match[1].trim().replace(/^["']|["']$/g, '');
\* Null when the line does not match
RECURSIVE LeadingDigits(_)
LeadingDigits(line) ==
  IF line # <<>> /\ IsDigit(Head(line)) THEN 1 + LeadingDigits(Tail(line)) ELSE 0

ParseLine(line) ==
  LET d == LeadingDigits(line)
  IN  IF d = 0 \/ Len(line) < d + 2 \/ line[d + 1] # "."
      THEN Null
      ELSE StripQuotes(Trim(SubSeq(line, d + 2, Len(line))))

\* parseBatchResponse padding the tail with empty strings
parseBatchResponsePadEmpty(response, originalBatch) ==
  LET lines == SelectSeq(response, LAMBDA line : Trim(line) # <<>>)
      matched == SelectSeq(lines, LAMBDA line : ParseLine(line) # Null)
      found == [i \in 1..Len(matched) |-> ParseLine(matched[i])]
  IN  IF Len(found) < Len(originalBatch)
      THEN found \o [i \in 1..(Len(originalBatch) - Len(found)) |-> <<>>]
      ELSE found

\* parseBatchResponse: the captured texts of the matching lines, in line order,
\* padded at the tail with the original texts
parseBatchResponse(response, originalBatch) ==
  LET lines == SelectSeq(response, LAMBDA line : Trim(line) # <<>>)
      matched == SelectSeq(lines, LAMBDA line : ParseLine(line) # Null)
      found == [i \in 1..Len(matched) |-> ParseLine(matched[i])]
  IN  IF Len(found) < Len(originalBatch)
      THEN found \o [i \in 1..(Len(originalBatch) - Len(found)) |->
                       originalBatch[Len(found) + i].text]
      ELSE found

\* the loop of translateBatch over the batch items, from item i on:
\* translations[i] || originalText.text is cached and recorded
RECURSIVE StoreBatch(_, _, _, _, _)
StoreBatch(c, ts, batch, parsed, i) ==
  IF i > Len(batch)
  THEN [cache |-> c, translations |-> ts]
  ELSE LET translatedText == IF Truthy(parsed[i]) THEN parsed[i] ELSE batch[i].text
       IN  StoreBatch(setCachedTranslation(c, batch[i].text, translatedText,
                                           batch[i].context),
                      TranslationsSet(ts, Result(batch[i], translatedText, FALSE, FALSE)),
                      batch, parsed, i + 1)

\* translateSingle's return value for the message content `response`
translateSingle(response) == StripQuotes(Trim(response))

\* the mapping with an entry for every result
MappingOfAll(ts) ==
  [i \in 1..Len(ts) |-> <<ts[i].original, ts[i].translated>>]

\* the flat mapping saveTranslations derives: the results whose translated differs
\* from original, in the Map's order (a JSON object, kept as a sequence of pairs)
MappingOf(ts) ==
  LET changed == SelectSeq(ts, LAMBDA r : r.translated # r.original)
  IN  [i \in 1..Len(changed) |-> <<changed[i].original, changed[i].translated>>]

-----------------------------------------------------------------------------
(* AITranslator: the run (main, constructor, translateTexts and its awaits) *)

AbsentCacheFile == [kind |-> "absent", cache |-> EmptyMap]
CorruptCacheFile == [kind |-> "corrupt", cache |-> EmptyMap]
AbsentExtracted == [exists |-> FALSE, texts |-> <<>>]

\* an entry an earlier run stored for the first extracted text, and its key
StoredEntry ==
  [original |-> ItemAt(1).text, translated |-> TranslationOf(1),
   context |-> ItemAt(1).context, model |-> GptMini, targetLanguage |-> Chinese]
StoredKey ==
  ItemAt(1).text \o <<"|">> \o GptMini \o <<"|">> \o Chinese \o <<"|">> \o ItemAt(1).context
NullKey ==
  ItemAt(2).text \o <<"|">> \o GptMini \o <<"|">> \o Chinese \o <<"|">> \o ItemAt(2).context

\* damaged cache files: not JSON; JSON without version; a null entry
DamagedCacheFiles ==
  { CorruptCacheFile,
    [kind |-> "noversion", cache |-> (StoredKey :> StoredEntry)],
    [kind |-> "valid", cache |-> (StoredKey :> StoredEntry) @@ (NullKey :> NullEntry)] }
AbsentTranslations == [exists |-> FALSE, metadata |-> <<>>, translations |-> <<>>]
AbsentMapping == [exists |-> FALSE, entries |-> <<>>]

TranslatorInit ==
  /\ extractedFile \in {AbsentExtracted} \cup
                       {[exists |-> TRUE, texts |-> l] : l \in ExtractedLists}
  /\ cacheFile \in {AbsentCacheFile, CorruptCacheFile}
  /\ translationsFile = AbsentTranslations
  /\ mappingFile = AbsentMapping
  /\ pc = "idle"
  /\ runs = 0
  /\ requestLog = <<>>
  /\ awaiting = FALSE
  /\ outstanding = 0
  /\ model = GptMini
  /\ targetLanguage = Chinese
  /\ cache = EmptyMap
  /\ translations = <<>>
  /\ processedCount = 0
  /\ totalCount = 0
  /\ cacheHits = 0
  /\ apiCalls = 0
  /\ batches = <<>>
  /\ batchIdx = 0
  /\ itemIdx = 0
  /\ saved = FALSE

\* new AITranslator() with OPENAI_API_KEY set: the fields are initialised and
\* loadCache reads the cache file
Construct(m, l) ==
  /\ pc \in {"idle", "done", "aborted"}
  /\ runs < MaxRuns
  /\ runs' = runs + 1
  /\ requestLog' = <<>>
  /\ awaiting' = FALSE
  /\ outstanding' = 0
  /\ model' = m
  /\ targetLanguage' = l
  /\ cache' = loadCache(cacheFile, m, l)
  /\ translations' = <<>>
  /\ processedCount' = 0
  /\ totalCount' = 0
  /\ cacheHits' = 0
  /\ apiCalls' = 0
  /\ batches' = <<>>
  /\ batchIdx' = 0
  /\ itemIdx' = 0
  /\ saved' = FALSE
  /\ pc' = "constructed"
  /\ UNCHANGED <<extractedFile, cacheFile, translationsFile, mappingFile>>
  /\ UNCHANGED <<rvars, cvars, evars>>

\* new AITranslator() with OPENAI_API_KEY unset: the constructor throws before
\* loadCache and main exits
ConstructNoKey(m, l) ==
  /\ pc \in {"idle", "done", "aborted"}
  /\ runs < MaxRuns
  /\ runs' = runs + 1
  /\ requestLog' = <<>>
  /\ awaiting' = FALSE
  /\ outstanding' = 0
  /\ model' = m
  /\ targetLanguage' = l
  /\ cache' = EmptyMap
  /\ translations' = <<>>
  /\ processedCount' = 0
  /\ totalCount' = 0
  /\ cacheHits' = 0
  /\ apiCalls' = 0
  /\ batches' = <<>>
  /\ batchIdx' = 0
  /\ itemIdx' = 0
  /\ saved' = FALSE
  /\ pc' = "aborted"
  /\ UNCHANGED <<extractedFile, cacheFile, translationsFile, mappingFile>>
  /\ UNCHANGED <<rvars, cvars, evars>>

\* saveTranslations: translations.json and translation-mapping.json
saveTranslations(ts, processed, total) ==
  /\ translationsFile' =
       [exists |-> TRUE,
        metadata |-> [model |-> model, targetLanguage |-> targetLanguage,
                      totalTexts |-> total,
                      successfulTranslations |-> processed,
                      failedTranslations |-> total - processed],
        translations |-> ts]
  /\ mappingFile' = [exists |-> TRUE, entries |-> MappingOf(ts)]

\* entries of the request log: a request (callOpenAI for a batch, or for one
\* item of a batch) and a delay (this.delay(ms))
Request(kind, b, i) == [kind |-> kind, batch |-> b, item |-> i, ms |-> 0]
Delay(ms) == [kind |-> "delay", batch |-> 0, item |-> 0, ms |-> ms]

\* the loop of translateTexts after batch batchIdx: delay(1000) unless it was the last
BatchDelay(log) ==
  IF batchIdx < Len(batches) THEN Append(log, Delay(1000)) ELSE log

\* the loop of translateBatchIndividually after item itemIdx: the next item at
\* once, or back in translateTexts
AfterItem(log) ==
  IF itemIdx < Len(batches[batchIdx]) THEN log ELSE BatchDelay(log)

\* the end of translateTexts: saveCache, then saveTranslations
Finish(c, ts, processed, total) ==
  /\ cacheFile' = saveCache(cacheFile, c)
  /\ saveTranslations(ts, processed, total)
  /\ saved' = TRUE
  /\ pc' = "done"
  /\ UNCHANGED <<batchIdx, itemIdx>>

\* after batch batchIdx is dealt with: the next batch (after the delay), or the end
NextBatchOrFinish(c, ts, processed) ==
  IF batchIdx < Len(batches)
  THEN /\ pc' = "batch"
       /\ batchIdx' = batchIdx + 1
       /\ itemIdx' = 0
       /\ UNCHANGED <<cacheFile, translationsFile, mappingFile, saved>>
  ELSE Finish(c, ts, processed, totalCount)

\* translateTexts when extracted-text.json is missing: throws, main exits
\* translateTexts with extracted-text.json missing, saving the cache before it throws
TranslateTextsMissingSaves ==
  /\ pc = "constructed"
  /\ ~extractedFile.exists
  /\ pc' = "aborted"
  /\ cacheFile' = saveCache(cacheFile, cache)
  /\ UNCHANGED <<extractedFile, translationsFile, mappingFile, runs, requestLog,
                 awaiting, outstanding, model,
                 targetLanguage, cache, translations, processedCount, totalCount,
                 cacheHits, apiCalls, batches, batchIdx, itemIdx, saved>>
  /\ UNCHANGED <<rvars, cvars, evars>>

TranslateTextsMissing ==
  /\ pc = "constructed"
  /\ ~extractedFile.exists
  /\ pc' = "aborted"
  /\ UNCHANGED <<extractedFile, cacheFile, translationsFile, mappingFile, runs, requestLog,
                 awaiting, outstanding, model,
                 targetLanguage, cache, translations, processedCount, totalCount,
                 cacheHits, apiCalls, batches, batchIdx, itemIdx, saved>>
  /\ UNCHANGED <<rvars, cvars, evars>>

\* translateTexts when the list is empty: returns at once
TranslateTextsEmpty ==
  /\ pc = "constructed"
  /\ extractedFile.exists
  /\ extractedFile.texts = <<>>
  /\ pc' = "done"
  /\ UNCHANGED <<extractedFile, cacheFile, translationsFile, mappingFile, runs, requestLog,
                 awaiting, outstanding, model,
                 targetLanguage, cache, translations, processedCount, totalCount,
                 cacheHits, apiCalls, batches, batchIdx, itemIdx, saved>>
  /\ UNCHANGED <<rvars, cvars, evars>>

\* the cachedTexts.forEach of translateTexts, from item i on
RECURSIVE StoreCached(_, _, _)
StoreCached(ts, cachedTexts, i) ==
  IF i > Len(cachedTexts)
  THEN ts
  ELSE StoreCached(
         TranslationsSet(ts,
           Result(cachedTexts[i],
                  getCachedTranslation(cache, cachedTexts[i].text, cachedTexts[i].context),
                  TRUE, FALSE)),
         cachedTexts, i + 1)

\* translateTexts up to its first request: the list is read, partitioned, the
\* cached texts are recorded and the uncached ones are batched; with nothing to
\* translate the run ends here.  getCachedTranslation counts a hit in
\* separateCachedTexts and again in the forEach.
TranslateTextsStart ==
  /\ pc = "constructed"
  /\ extractedFile.exists
  /\ extractedFile.texts # <<>>
  /\ LET texts == extractedFile.texts
         sep == separateCachedTexts(cache, texts)
         ts == StoreCached(translations, sep.cachedTexts, 1)
         processed == processedCount + Len(sep.cachedTexts)
     IN  /\ totalCount' = Len(texts)
         /\ cacheHits' = cacheHits + 2 * Len(sep.cachedTexts)
         /\ translations' = ts
         /\ processedCount' = processed
         /\ IF sep.uncachedTexts # <<>>
            THEN /\ batches' = createBatches(sep.uncachedTexts, BatchSize)
                 /\ batchIdx' = 1
                 /\ itemIdx' = 0
                 /\ pc' = "batch"
                 /\ UNCHANGED <<cacheFile, translationsFile, mappingFile, saved>>
            ELSE /\ batches' = <<>>
                 /\ Finish(cache, ts, processed, Len(texts))
  /\ UNCHANGED <<extractedFile, runs, requestLog,
                 awaiting, outstanding, model, targetLanguage, cache, apiCalls>>
  /\ UNCHANGED <<rvars, cvars, evars>>

\* callOpenAI sending the request that its caller awaits
CallOpenAI(kind, i) ==
  /\ ~awaiting
  /\ awaiting' = TRUE
  /\ outstanding' = outstanding + 1
  /\ requestLog' = Append(requestLog, Request(kind, batchIdx, i))
  /\ UNCHANGED <<extractedFile, cacheFile, translationsFile, mappingFile, pc, runs,
                 model, targetLanguage, cache, translations, processedCount,
                 totalCount, cacheHits, apiCalls, batches, batchIdx, itemIdx, saved>>
  /\ UNCHANGED <<rvars, cvars, evars>>

\* callOpenAI returning or throwing: the awaiting caller goes on
Answered ==
  /\ awaiting
  /\ awaiting' = FALSE
  /\ outstanding' = outstanding - 1

\* translateBatch sending the request for the whole batch without awaiting it
CallBatchNoAwait ==
  /\ pc = "batch"
  /\ outstanding < 2
  /\ outstanding' = outstanding + 1
  /\ requestLog' = Append(requestLog, Request("batch", batchIdx, 0))
  /\ UNCHANGED <<extractedFile, cacheFile, translationsFile, mappingFile, pc, runs,
                 awaiting, model, targetLanguage, cache, translations, processedCount,
                 totalCount, cacheHits, apiCalls, batches, batchIdx, itemIdx, saved>>
  /\ UNCHANGED <<rvars, cvars, evars>>

\* translateBatch sending the request for the whole batch
CallBatch ==
  /\ pc = "batch"
  /\ CallOpenAI("batch", 0)

\* translateBatchIndividually sending the request of translateSingle for an
\* item that getCachedTranslation does not find
CallItem ==
  /\ pc = "indiv"
  /\ LET text == batches[batchIdx][itemIdx]
     IN  ~Truthy(getCachedTranslation(cache, text.text, text.context))
  /\ CallOpenAI("item", itemIdx)

\* translateBatch, the request succeeds with `response`: every item is cached
\* and recorded
TranslateBatchOk ==
  /\ pc = "batch"
  /\ Answered
  /\ \E response \in BatchResponses(batches[batchIdx]) :
     LET batch == batches[batchIdx]
         parsed == parseBatchResponse(response, batch)
         st == StoreBatch(cache, translations, batch, parsed, 1)
     IN  /\ cache' = st.cache
         /\ translations' = st.translations
         /\ processedCount' = processedCount + Len(batch)
         /\ NextBatchOrFinish(st.cache, st.translations, processedCount + Len(batch))
  /\ apiCalls' = apiCalls + 1
  /\ requestLog' = BatchDelay(requestLog)
  /\ UNCHANGED <<extractedFile, runs, model, targetLanguage, totalCount, cacheHits,
                 batches>>
  /\ UNCHANGED <<rvars, cvars, evars>>

\* translateBatch, callOpenAI throws (network error, non-success status, no
\* choices): the catch block starts translateBatchIndividually
TranslateBatchFail ==
  /\ pc = "batch"
  /\ Answered
  /\ pc' = "indiv"
  /\ itemIdx' = 1
  /\ UNCHANGED <<extractedFile, cacheFile, translationsFile, mappingFile, runs,
                 requestLog, model,
                 targetLanguage, cache, translations, processedCount, totalCount,
                 cacheHits, apiCalls, batches, batchIdx, saved>>
  /\ UNCHANGED <<rvars, cvars, evars>>

\* translateBatch, the message content is not a string: apiCalls is counted,
\* response.split throws inside parseBatchResponse, and the catch block starts
\* translateBatchIndividually
TranslateBatchBadContent ==
  /\ pc = "batch"
  /\ Answered
  /\ pc' = "indiv"
  /\ itemIdx' = 1
  /\ apiCalls' = apiCalls + 1
  /\ UNCHANGED <<extractedFile, cacheFile, translationsFile, mappingFile, runs,
                 requestLog, model,
                 targetLanguage, cache, translations, processedCount, totalCount,
                 cacheHits, batches, batchIdx, saved>>
  /\ UNCHANGED <<rvars, cvars, evars>>

\* after item itemIdx of translateBatchIndividually: the next item, or the batch is over
NextItemOrBatch(c, ts, processed) ==
  IF itemIdx < Len(batches[batchIdx])
  THEN /\ pc' = "indiv"
       /\ itemIdx' = itemIdx + 1
       /\ UNCHANGED <<batchIdx, cacheFile, translationsFile, mappingFile, saved>>
  ELSE NextBatchOrFinish(c, ts, processed)

\* translateBatchIndividually, one item that getCachedTranslation finds ("Check
\* cache first"): it is recorded with fromCache: true and no request is made
ItemFromCache(text, translated) ==
  LET ts == TranslationsSet(translations, Result(text, translated, TRUE, FALSE))
  IN  /\ cacheHits' = cacheHits + 1
      /\ translations' = ts
      /\ processedCount' = processedCount + 1
      /\ NextItemOrBatch(cache, ts, processedCount + 1)
      /\ requestLog' = AfterItem(requestLog)
      /\ UNCHANGED <<cache, apiCalls, awaiting, outstanding>>

\* translateBatchIndividually, one item that is not in the cache and whose
\* request succeeds with `response`
ItemTranslated(text, response) ==
  LET translated == translateSingle(response)
      c == setCachedTranslation(cache, text.text, translated, text.context)
      ts == TranslationsSet(translations, Result(text, translated, FALSE, FALSE))
  IN  /\ cache' = c
      /\ translations' = ts
      /\ processedCount' = processedCount + 1
      /\ apiCalls' = apiCalls + 1
      /\ NextItemOrBatch(c, ts, processedCount + 1)
      /\ requestLog' = AfterItem(Append(requestLog, Delay(500)))
      /\ UNCHANGED cacheHits

\* translateBatchIndividually, one item whose request (if any) does not throw
TranslateItemOk ==
  /\ pc = "indiv"
  /\ LET text == batches[batchIdx][itemIdx]
         cachedTranslation == getCachedTranslation(cache, text.text, text.context)
     IN  IF Truthy(cachedTranslation)
         THEN ~awaiting /\ ItemFromCache(text, cachedTranslation)
         ELSE /\ Answered
              /\ \E response \in SingleResponses(text.text) :
                    ItemTranslated(text, response)
  /\ UNCHANGED <<extractedFile, runs, model, targetLanguage, totalCount, batches>>
  /\ UNCHANGED <<rvars, cvars, evars>>

\* the catch block caching the original text it records
TranslateItemFailCaches ==
  /\ pc = "indiv"
  /\ Answered
  /\ LET text == batches[batchIdx][itemIdx]
         c == setCachedTranslation(cache, text.text, text.text, text.context)
         ts == TranslationsSet(translations, Result(text, text.text, FALSE, TRUE))
     IN  /\ ~Truthy(getCachedTranslation(cache, text.text, text.context))
         /\ cache' = c
         /\ translations' = ts
         /\ processedCount' = processedCount + 1
         /\ NextItemOrBatch(c, ts, processedCount + 1)
  /\ requestLog' = AfterItem(requestLog)
  /\ UNCHANGED <<extractedFile, runs, model, targetLanguage, totalCount,
                 cacheHits, apiCalls, batches>>
  /\ UNCHANGED <<rvars, cvars, evars>>

\* translateBatchIndividually, one item, its request throws: the original text
\* is recorded with error: true
TranslateItemFail ==
  /\ pc = "indiv"
  /\ Answered
  /\ LET text == batches[batchIdx][itemIdx]
         ts == TranslationsSet(translations, Result(text, text.text, FALSE, TRUE))
     IN  /\ ~Truthy(getCachedTranslation(cache, text.text, text.context))
         /\ translations' = ts
         /\ processedCount' = processedCount + 1
         /\ NextItemOrBatch(cache, ts, processedCount + 1)
  /\ requestLog' = AfterItem(requestLog)
  /\ UNCHANGED <<extractedFile, runs, model, targetLanguage, cache, totalCount,
                 cacheHits, apiCalls, batches>>
  /\ UNCHANGED <<rvars, cvars, evars>>

TranslatorNext ==
  \/ \E cfg \in Configs : Construct(cfg[1], cfg[2])
  \/ \E cfg \in Configs : ConstructNoKey(cfg[1], cfg[2])
  \/ TranslateTextsMissing
  \/ TranslateTextsEmpty
  \/ TranslateTextsStart
  \/ CallBatch
  \/ TranslateBatchOk
  \/ TranslateBatchFail
  \/ TranslateBatchBadContent
  \/ CallItem
  \/ TranslateItemOk
  \/ TranslateItemFail

-----------------------------------------------------------------------------
(* TextReplacer: pure helpers *)

\* the characters createReplacementRegex escapes: [.*+?^${}()|[\]\\]
IsRegexSpecial(c) ==
  c \in {".", "*", "+", "?", "^", "$", "{", "}", "(", ")", "|", "[", "]", "\\"}

\* text.replace(/[.*+?^${}()|[\]\\]/g, '\\$&'): the source of the regex
RECURSIVE EscapeRegex(_)
EscapeRegex(text) ==
  IF text = <<>> THEN <<>>
  ELSE IF IsRegexSpecial(Head(text))
       THEN <<"\\", Head(text)>> \o EscapeRegex(Tail(text))
       ELSE <<Head(text)>> \o EscapeRegex(Tail(text))

\* new RegExp(source, 'g') as a sequence of atoms: an escaped character and an
\* ordinary character match themselves, an unescaped dot matches any character
\* (the other unescaped operators never reach the constructor from EscapeRegex)
RECURSIVE RegexAtoms(_)
RegexAtoms(source) ==
  IF source = <<>> THEN <<>>
  ELSE IF Head(source) = "\\" /\ Len(source) >= 2
       THEN <<[any |-> FALSE, ch |-> source[2]]>> \o RegexAtoms(Tail(Tail(source)))
       ELSE IF Head(source) = "."
            THEN <<[any |-> TRUE, ch |-> "."]>> \o RegexAtoms(Tail(source))
            ELSE <<[any |-> FALSE, ch |-> Head(source)]>> \o RegexAtoms(Tail(source))

\* createReplacementRegex
createReplacementRegex(text) == RegexAtoms(EscapeRegex(text))

\* does the regex match the content at position `at`?
MatchesAt(content, regex, at) ==
  /\ at + Len(regex) - 1 <= Len(content)
  /\ \A i \in 1..Len(regex) : regex[i].any \/ regex[i].ch = content[at + i - 1]

\* the while loop over tempRegex.exec: the start positions of the matches,
\* left to right, each search resuming after the previous match
RECURSIVE FindMatches(_, _, _)
FindMatches(content, regex, from) ==
  IF from + Len(regex) - 1 > Len(content) THEN <<>>
  ELSE IF MatchesAt(content, regex, from)
       THEN <<from>> \o FindMatches(content, regex, from + Len(regex))
       ELSE FindMatches(content, regex, from + 1)

\* the replacement text String.prototype.replace builds from the pattern
\* `translated` for one match (GetSubstitution with no capture groups):
\* $$ is a dollar, $& the match, $` the text before it, $' the text after it
RECURSIVE GetSubstitution(_, _, _, _)
GetSubstitution(translated, matched, before, after) ==
  IF translated = <<>> THEN <<>>
  ELSE IF Head(translated) = "$" /\ Len(translated) >= 2
            /\ translated[2] \in {"$", "&", "`", "'"}
       THEN (CASE translated[2] = "$" -> <<"$">>
               [] translated[2] = "&" -> matched
               [] translated[2] = "`" -> before
               [] translated[2] = "'" -> after)
            \o GetSubstitution(Tail(Tail(translated)), matched, before, after)
       ELSE <<Head(translated)>>
            \o GetSubstitution(Tail(translated), matched, before, after)

\* modifiedContent.replace(regex, translated), from position `from` on
RECURSIVE ReplaceFrom(_, _, _, _)
ReplaceFrom(content, regex, translated, from) ==
  IF from > Len(content) THEN <<>>
  ELSE IF MatchesAt(content, regex, from)
       THEN GetSubstitution(translated,
                            SubSeq(content, from, from + Len(regex) - 1),
                            SubSeq(content, 1, from - 1),
                            SubSeq(content, from + Len(regex), Len(content)))
            \o ReplaceFrom(content, regex, translated, from + Len(regex))
       ELSE <<content[from]>> \o ReplaceFrom(content, regex, translated, from + 1)

\* this.replacements.set(k, v)
ReplacementsSet(m, k, v) ==
  IF \E i \in 1..Len(m) : m[i][1] = k
  THEN [i \in 1..Len(m) |-> IF m[i][1] = k THEN <<k, v>> ELSE m[i]]
  ELSE Append(m, <<k, v>>)

\* the forEach of loadTranslationMapping over Object.entries(mappingData), from
\* entry i on: an entry is kept, trimmed, when both sides are non-empty strings
\* that are non-empty after trimming and differ
RECURSIVE LoadEntries(_, _, _)
LoadEntries(m, entries, i) ==
  IF i > Len(entries) THEN m
  ELSE LET original == entries[i][1]
           translated == entries[i][2]
       IN  IF /\ Truthy(original) /\ Truthy(translated)
              /\ Trim(original) # <<>> /\ Trim(translated) # <<>>
              /\ original # translated
           THEN LoadEntries(ReplacementsSet(m, Trim(original), Trim(translated)),
                            entries, i + 1)
           ELSE LoadEntries(m, entries, i + 1)

\* the replacement loop of processFile over this.replacements, from entry i on;
\* st = [content, fileReplacements, changes]
RECURSIVE PerformReplacements(_, _, _)
PerformReplacements(st, m, i) ==
  IF i > Len(m) THEN st
  ELSE LET original == m[i][1]
           translated == m[i][2]
           regex == createReplacementRegex(original)
           matches == FindMatches(st.content, regex, 1)
       IN  IF ~Truthy(original) \/ ~Truthy(translated) \/ original = translated
           THEN PerformReplacements(st, m, i + 1)
           ELSE IF Len(matches) > 0
                THEN PerformReplacements(
                       [content |-> ReplaceFrom(st.content, regex, translated, 1),
                        fileReplacements |-> st.fileReplacements + Len(matches),
                        changes |-> Append(st.changes,
                                      [original |-> original, translated |-> translated,
                                       occurrences |-> Len(matches)])],
                       m, i + 1)
                ELSE PerformReplacements(st, m, i + 1)

-----------------------------------------------------------------------------
(* The source tree *)

\* the files under sourceDir, in the order of the directory walk
Tree ==
  << [dirs |-> <<>>,               name |-> "App.vue",   ext |-> ".vue"],
     [dirs |-> <<>>,               name |-> "README.md", ext |-> ".md"],
     [dirs |-> <<".nuxt">>,        name |-> "gen.js",    ext |-> ".js"],
     [dirs |-> <<"lib">>,          name |-> "util.ts",   ext |-> ".ts"],
     [dirs |-> <<"node_modules">>, name |-> "dep.js",    ext |-> ".js"] >>

FileIds == 1..Len(Tree)

\* copyDirectory does not descend into these directories
CopySkippedDirs == {"node_modules", ".git", "dist", "build"}

\* processDirectory does not descend into these directories
ProcessSkippedDirs == {"node_modules", ".git", "dist", "build", ".nuxt", ".next"}

\* processDirectory hands files with these extensions to processFile
ProcessedExts == {".vue", ".js", ".ts", ".jsx", ".tsx"}

\* copyDirectory copies the file
IsCopied(f) == \A i \in 1..Len(Tree[f].dirs) : Tree[f].dirs[i] \notin CopySkippedDirs

\* processDirectory calls processFile on the file
IsProcessed(f) ==
  /\ \A i \in 1..Len(Tree[f].dirs) : Tree[f].dirs[i] \notin ProcessSkippedDirs
  /\ Tree[f].ext \in ProcessedExts

\* the files copyDirectory copies and the files processDirectory visits, in order
CopyOrder == SelectSeq([f \in FileIds |-> f], IsCopied)
ProcessOrder == SelectSeq([f \in FileIds |-> f], IsProcessed)

\* contents of the visited source files
FileContents ==
  { <<"<", "a", "b", ">">>,
    <<"a", "b", " ", "c">>,
    <<"a", "b", "a", "b">>,
    <<"a", "z", "b">> }

\* content of the files that are not visited
OtherContent == <<"a", "b">>

\* contents of translation-mapping.json
MappingContents ==
  { <<>>,
    << << <<"a", "b">>, <<"X">> >> >>,
    << << <<"a", "b">>, <<"X", "c">> >>, << <<"c">>, <<"Y">> >> >>,
    << << <<"a", ".", "b">>, <<"X">> >>, << <<"c">>, <<>> >> >>,
    << << <<"a", "b", " ">>, <<"a", "b">> >>, << <<" ", "c">>, <<"Y", " ">> >> >>,
    << << <<"a", "b">>, <<"$", "&", "X">> >> >>,
    << << <<"z">>, <<"$", "$">> >>, << <<"<">>, <<"$", "'">> >> >> }

-----------------------------------------------------------------------------
(* TextReplacer: the run (main, constructor, replaceTexts) *)

AbsentBackup == [exists |-> FALSE, files |-> EmptyMap]
AbsentReport == [exists |-> FALSE, data |-> <<>>]
NewReportData == [filesProcessed |-> 0, totalReplacements |-> 0, fileChanges |-> <<>>]

ReplacerInit ==
  /\ srcTree \in {t \in [FileIds -> FileContents \cup {OtherContent}] :
                    \A f \in FileIds : ~IsProcessed(f) => t[f] = OtherContent}
  /\ backup = AbsentBackup
  /\ rpc = "idle"
  /\ rruns = 0
  /\ replacements = <<>>
  /\ fileIdx = 0
  /\ reportData = NewReportData
  /\ totalReplacements = 0
  /\ reportFile = AbsentReport
  /\ runStart = [tree |-> srcTree, backup |-> backup]
  /\ written = {}
  /\ warned = {}

\* replace-text.js when translation-mapping.json is missing:
\* loadTranslationMapping throws, main exits
ReplaceTextsMissing ==
  /\ rpc \in {"idle", "done", "aborted"}
  /\ rruns < MaxReplacerRuns
  /\ ~mappingFile.exists
  /\ rruns' = rruns + 1
  /\ replacements' = <<>>
  /\ fileIdx' = 0
  /\ reportData' = NewReportData
  /\ totalReplacements' = 0
  /\ rpc' = "aborted"
  /\ runStart' = [tree |-> srcTree, backup |-> backup]
  /\ written' = {}
  /\ warned' = {}
  /\ UNCHANGED <<srcTree, backup, reportFile>>
  /\ UNCHANGED <<tvars, cvars, evars>>

\* new TextReplacer(sourceDir) and replaceTexts up to the size check: the
\* mapping is loaded; with no valid entry replaceTexts returns
ReplaceTextsLoad ==
  /\ rpc \in {"idle", "done", "aborted"}
  /\ rruns < MaxReplacerRuns
  /\ mappingFile.exists
  /\ rruns' = rruns + 1
  /\ replacements' = LoadEntries(<<>>, mappingFile.entries, 1)
  /\ fileIdx' = 0
  /\ reportData' = NewReportData
  /\ totalReplacements' = 0
  /\ rpc' = IF replacements' = <<>> THEN "done" ELSE "loaded"
  /\ runStart' = [tree |-> srcTree, backup |-> backup]
  /\ written' = {}
  /\ warned' = {}
  /\ UNCHANGED <<srcTree, backup, reportFile>>
  /\ UNCHANGED <<tvars, cvars, evars>>

\* the files copyDirectory has copied once it copied the first n files of its walk
CopiedFiles(n) ==
  [f \in {CopyOrder[i] : i \in 1..n} |-> srcTree[f]]

\* createBackup that copies over a backup directory that exists
createBackupAlways ==
  [exists |-> TRUE, files |-> CopiedFiles(Len(CopyOrder))]

\* createBackup whose copy does not descend into subdirectories
createBackupShallow ==
  IF ~backup.exists
  THEN [exists |-> TRUE,
        files |-> [f \in {g \in FileIds : Tree[g].dirs = <<>>} |-> srcTree[f]]]
  ELSE backup

\* createBackup: the tree is copied unless the backup directory exists
createBackup ==
  IF ~backup.exists
  THEN [exists |-> TRUE, files |-> CopiedFiles(Len(CopyOrder))]
  ELSE backup

\* the end of replaceTexts: generateReport writes the two reports
generateReport(rd, total) ==
  /\ reportData' = [rd EXCEPT !.totalReplacements = total]
  /\ reportFile' = [exists |-> TRUE, data |-> [rd EXCEPT !.totalReplacements = total]]
  /\ rpc' = "done"

\* processDirectory after the file at fileIdx: the next file, or the report
NextFileOrReport(rd, total) ==
  IF fileIdx < Len(ProcessOrder)
  THEN /\ fileIdx' = fileIdx + 1
       /\ reportData' = rd
       /\ rpc' = "process"
       /\ UNCHANGED reportFile
  ELSE /\ generateReport(rd, total)
       /\ UNCHANGED fileIdx

\* replaceTexts: createBackup completes; processDirectory starts its walk
CreateBackup ==
  /\ rpc = "loaded"
  /\ backup' = createBackup
  /\ IF ProcessOrder # <<>>
     THEN /\ rpc' = "process"
          /\ fileIdx' = 1
          /\ UNCHANGED <<reportData, reportFile>>
     ELSE /\ generateReport(reportData, totalReplacements)
          /\ UNCHANGED fileIdx
  /\ UNCHANGED <<srcTree, rruns, replacements, totalReplacements, runStart,
                 written, warned>>
  /\ UNCHANGED <<tvars, cvars, evars>>

\* replaceTexts: copyDirectory throws after copying n files (mkdirSync has
\* created the directory); replaceTexts throws and main exits
CreateBackupFail ==
  /\ rpc = "loaded"
  /\ ~backup.exists
  /\ \E n \in 0..(Len(CopyOrder) - 1) :
       backup' = [exists |-> TRUE, files |-> CopiedFiles(n)]
  /\ rpc' = "aborted"
  /\ UNCHANGED <<srcTree, rruns, replacements, fileIdx, reportData,
                 totalReplacements, reportFile, runStart, written, warned>>
  /\ UNCHANGED <<tvars, cvars, evars>>

\* processFile listing the file whether or not a replacement was made
ProcessFileOkListsAll ==
  /\ rpc = "process"
  /\ LET f == ProcessOrder[fileIdx]
         st == PerformReplacements(
                 [content |-> srcTree[f], fileReplacements |-> 0, changes |-> <<>>],
                 replacements, 1)
         counted == [reportData EXCEPT !.filesProcessed = @ + 1]
     IN  /\ srcTree' = [srcTree EXCEPT ![f] = st.content]
         /\ written' = IF st.fileReplacements > 0 THEN written \cup {f} ELSE written
         /\ totalReplacements' = totalReplacements + st.fileReplacements
         /\ NextFileOrReport(
              [counted EXCEPT !.fileChanges =
                 Append(@, [file |-> f, replacements |-> st.fileReplacements,
                            changes |-> st.changes])],
              totalReplacements + st.fileReplacements)
  /\ UNCHANGED <<backup, rruns, replacements, runStart, warned>>
  /\ UNCHANGED <<tvars, cvars, evars>>

\* processFile on the file at fileIdx, no I/O error: the file is rewritten and
\* listed when at least one replacement was made
ProcessFileOk ==
  /\ rpc = "process"
  /\ LET f == ProcessOrder[fileIdx]
         st == PerformReplacements(
                 [content |-> srcTree[f], fileReplacements |-> 0, changes |-> <<>>],
                 replacements, 1)
         counted == [reportData EXCEPT !.filesProcessed = @ + 1]
     IN  IF st.fileReplacements > 0
         THEN /\ srcTree' = [srcTree EXCEPT ![f] = st.content]
              /\ written' = written \cup {f}
              /\ totalReplacements' = totalReplacements + st.fileReplacements
              /\ NextFileOrReport(
                   [counted EXCEPT !.fileChanges =
                      Append(@, [file |-> f, replacements |-> st.fileReplacements,
                                 changes |-> st.changes])],
                   totalReplacements + st.fileReplacements)
         ELSE /\ UNCHANGED <<srcTree, totalReplacements, written>>
              /\ NextFileOrReport(counted, totalReplacements)
  /\ UNCHANGED <<backup, rruns, replacements, runStart, warned>>
  /\ UNCHANGED <<tvars, cvars, evars>>

\* processFile, readFileSync throws: the catch block logs, the file is skipped
ProcessFileReadError ==
  /\ rpc = "process"
  /\ NextFileOrReport(reportData, totalReplacements)
  /\ warned' = warned \cup {ProcessOrder[fileIdx]}
  /\ UNCHANGED <<srcTree, backup, rruns, replacements, totalReplacements, runStart,
                 written>>
  /\ UNCHANGED <<tvars, cvars, evars>>

\* processFile, writeFileSync throws: the file was counted as processed, the
\* catch block logs, nothing is written or listed
ProcessFileWriteError ==
  /\ rpc = "process"
  /\ LET f == ProcessOrder[fileIdx]
         st == PerformReplacements(
                 [content |-> srcTree[f], fileReplacements |-> 0, changes |-> <<>>],
                 replacements, 1)
     IN  /\ st.fileReplacements > 0
         /\ NextFileOrReport([reportData EXCEPT !.filesProcessed = @ + 1],
                             totalReplacements)
  /\ warned' = warned \cup {ProcessOrder[fileIdx]}
  /\ UNCHANGED <<srcTree, backup, rruns, replacements, totalReplacements, runStart,
                 written>>
  /\ UNCHANGED <<tvars, cvars, evars>>

\* the workflow removes the backup directory after the replacement step
RemoveBackup ==
  /\ rpc = "done"
  /\ backup.exists
  /\ backup' = AbsentBackup
  /\ UNCHANGED <<srcTree, rpc, rruns, replacements, fileIdx, reportData,
                 totalReplacements, reportFile, runStart, written, warned>>
  /\ UNCHANGED <<tvars, cvars, evars>>

ReplacerNext ==
  \/ ReplaceTextsMissing
  \/ ReplaceTextsLoad
  \/ CreateBackup
  \/ CreateBackupFail
  \/ ProcessFileOk
  \/ ProcessFileReadError
  \/ ProcessFileWriteError
  \/ RemoveBackup

-----------------------------------------------------------------------------
(* translateBatch's success path as a function of the batch and the response *)

NoCall == [phase |-> "none", batch |-> <<>>, response |-> <<>>, parsed |-> <<>>,
           translations |-> <<>>]

\* the batches createBatches makes of the extracted lists
BatchesOfLists ==
  UNION {{createBatches(l, BatchSize)[b] :
            b \in 1..Len(createBatches(l, BatchSize))} : l \in ExtractedLists}

\* a batch and the provider's response to its request
CallInit ==
  call \in {[phase |-> "request", batch |-> b, response |-> r, parsed |-> <<>>,
             translations |-> <<>>] :
              b \in BatchesOfLists, r \in UNION {BatchResponses(x) : x \in BatchesOfLists}}

\* translateBatch from the response on: parseBatchResponse, then the loop that
\* caches and records every item
ParseAndStore ==
  /\ call.phase = "request"
  /\ LET parsed == parseBatchResponse(call.response, call.batch)
     IN  call' = [call EXCEPT
                    !.phase = "stored",
                    !.parsed = parsed,
                    !.translations =
                      StoreBatch(EmptyMap, <<>>, call.batch, parsed, 1).translations]
  /\ UNCHANGED <<tvars, rvars, evars, svars, wf>>

-----------------------------------------------------------------------------
(* The extractors: TextExtractor (extract-text.js) and VueSFCExtractor *)

\* scanDirectory does not descend into these directories
ExtractSkippedDirs == {"node_modules", ".git", "dist", "build", ".nuxt", ".next"}

\* skipFiles: the configuration files scanDirectory does not process
SkipFiles ==
  {"nuxt.config.ts", "nuxt.config.js", "vite.config.ts", "vite.config.js",
   "webpack.config.js", "webpack.config.ts", "rollup.config.js", "rollup.config.ts",
   "tailwind.config.js", "tailwind.config.ts", "tsconfig.json", "package.json",
   "eslint.config.js", "eslint.config.ts"}

\* the extensions scanDirectory hands to the file processors
ExtractedExts == {".vue", ".js", ".ts", ".jsx", ".tsx"}

FileEntry(name, ext, path) ==
  [name |-> name, isDir |-> FALSE, ext |-> ext, path |-> path, children |-> <<>>]

DirEntry(name, children) ==
  [name |-> name, isDir |-> TRUE, ext |-> "", path |-> name, children |-> children]

\* the entries of the source directory; readdirSync returns them in an order
\* the file system chooses
RootEntries ==
  << FileEntry("App.vue", ".vue", "App.vue"),
     FileEntry("vite.config.ts", ".ts", "vite.config.ts"),
     DirEntry("src", << FileEntry("main.ts", ".ts", "src/main.ts"),
                        FileEntry("notes.md", ".md", "src/notes.md") >>),
     DirEntry("node_modules", << FileEntry("dep.js", ".js", "node_modules/dep.js") >>) >>

RootListings ==
  {[i \in 1..Len(RootEntries) |-> RootEntries[p[i]]] :
     p \in {q \in [1..Len(RootEntries) -> 1..Len(RootEntries)] :
              \A i, j \in 1..Len(RootEntries) : i # j => q[i] # q[j]}}

SourcePaths ==
  {"App.vue", "vite.config.ts", "src/main.ts", "src/notes.md", "node_modules/dep.js"}

\* texts found in source files
Open == <<"o", "p", "e", "n">>
Cut == <<"c", "u", "t">>
CutPadded == <<" ", "c", "u", "t">>

\* a source file as the extractors see it: the texts between the tags of its
\* template, the string literals of its script, and whether Babel parses the script
VueContents ==
  { [template |-> <<Open>>, script |-> <<CutPadded, Open>>, parses |-> TRUE],
    [template |-> <<Cut, Open>>, script |-> <<Cut, CutPadded>>, parses |-> FALSE] }

ScriptContents ==
  { [template |-> <<>>, script |-> <<Open, Cut>>, parses |-> TRUE],
    [template |-> <<>>, script |-> <<CutPadded, Open, CutPadded>>, parses |-> FALSE] }

OtherFileContent == [template |-> <<>>, script |-> <<Open>>, parses |-> TRUE]

\* scanDirectory over the entries of one directory, from entry i on: the files
\* handed to the file processors, in order.  At a configuration file
\* TextExtractor returns from the directory, VueSFCExtractor continues with
\* the next entry.
RECURSIVE scanDirectory(_, _, _)
scanDirectory(ex, entries, i) ==
  IF i > Len(entries) THEN <<>>
  ELSE LET e == entries[i]
       IN  IF e.isDir
           THEN (IF e.name \notin ExtractSkippedDirs
                 THEN scanDirectory(ex, e.children, 1)
                 ELSE <<>>)
                \o scanDirectory(ex, entries, i + 1)
           ELSE IF e.name \in SkipFiles
                THEN (IF ex = "TextExtractor"
                      THEN <<>>
                      ELSE scanDirectory(ex, entries, i + 1))
                ELSE IF e.ext \in ExtractedExts
                     THEN <<e.path>> \o scanDirectory(ex, entries, i + 1)
                     ELSE scanDirectory(ex, entries, i + 1)

\* addText over a list of found texts: each is trimmed and, when something is
\* left, pushed with its file and context
RECURSIVE addTexts(_, _, _)
addTexts(found, file, context) ==
  IF found = <<>> THEN <<>>
  ELSE (IF Truthy(Head(found)) /\ Trim(Head(found)) # <<>>
        THEN <<[text |-> Trim(Head(found)), file |-> file, context |-> context]>>
        ELSE <<>>)
       \o addTexts(Tail(found), file, context)

\* VueSFCExtractor.extractFromScript without the fallback in its catch block
extractFromScriptNoFallback(content, file) ==
  IF content.script = <<>> THEN <<>>
  ELSE IF content.parses
       THEN addTexts(content.script, file, "script-string")
       ELSE <<>>

\* VueSFCExtractor.extractFromScriptRegex: /['"`]([^'"`\n\r]{4,}?)['"`]/g finds
\* the literals of four characters or more
extractFromScriptRegex(content, file) ==
  addTexts(SelectSeq(content.script, LAMBDA s : Len(s) >= 4), file, "script-regex")

\* VueSFCExtractor.extractFromScript: the string literals Babel finds, or, when
\* Babel throws, what extractFromScriptRegex finds
extractFromScript(content, file) ==
  IF content.script = <<>> THEN <<>>
  ELSE IF content.parses
       THEN addTexts(content.script, file, "script-string")
       ELSE extractFromScriptRegex(content, file)

\* what processing one file adds to this.extractedTexts
ExtractFile(ex, content, file) ==
  IF ex = "VueSFCExtractor"
  THEN addTexts(content.template, file, "template-text")
       \o extractFromScript(content, file)
  ELSE addTexts(content.template, file, "template")
       \o addTexts(SelectSeq(content.script, LAMBDA s : Len(s) >= 3), file, "string")

\* a.localeCompare(b) <= 0 on the texts of the model (lower-case letters)
Alphabet == <<" ", "c", "e", "n", "o", "p", "t", "u">>
CharRank(c) == CHOOSE i \in 1..Len(Alphabet) : Alphabet[i] = c

RECURSIVE LocaleLessEq(_, _)
LocaleLessEq(a, b) ==
  IF a = <<>> THEN TRUE
  ELSE IF b = <<>> THEN FALSE
  ELSE IF Head(a) = Head(b) THEN LocaleLessEq(Tail(a), Tail(b))
  ELSE CharRank(Head(a)) < CharRank(Head(b))

\* Array.prototype.sort with (a, b) => a.text.localeCompare(b.text): stable
RECURSIVE InsertSorted(_, _)
InsertSorted(sorted, item) ==
  IF sorted = <<>> THEN <<item>>
  ELSE IF LocaleLessEq(Head(sorted).text, item.text)
       THEN <<Head(sorted)>> \o InsertSorted(Tail(sorted), item)
       ELSE <<item>> \o sorted

RECURSIVE SortByText(_)
SortByText(items) ==
  IF items = <<>> THEN <<>>
  ELSE InsertSorted(SortByText(SubSeq(items, 1, Len(items) - 1)), items[Len(items)])

\* the key removeDuplicates files an item under
DedupKey(ex, item) ==
  IF ex = "VueSFCExtractor" THEN item.text
  ELSE item.text \o <<":">> \o item.context

\* the loop of removeDuplicates, from item i on: `unique` holds the entries kept
\* so far.  An entry carries `file` until a second occurrence is merged into
\* it; from then on it carries the list `files` and `file` is deleted.
RECURSIVE MergeItems(_, _, _, _)
MergeItems(ex, items, unique, i) ==
  IF i > Len(items) THEN unique
  ELSE LET item == items[i]
           seen == \E u \in 1..Len(unique) :
                     DedupKey(ex, unique[u]) = DedupKey(ex, item)
           same(u) == IF ex = "VueSFCExtractor"
                      THEN unique[u].text = item.text
                      ELSE unique[u].text = item.text /\ unique[u].context = item.context
           hit == {u \in 1..Len(unique) : same(u)}
       IN  IF ~seen
           THEN MergeItems(ex, items,
                  Append(unique, [text |-> item.text, context |-> item.context,
                                  file |-> item.file, files |-> Null]), i + 1)
           ELSE IF hit = {}
                THEN MergeItems(ex, items, unique, i + 1)
                ELSE LET first == CHOOSE u \in hit : \A v \in hit : u <= v
                         files == IF unique[first].files = Null
                                  THEN <<unique[first].file>>
                                  ELSE unique[first].files
                         has == \E k \in 1..Len(files) : files[k] = item.file
                     IN  MergeItems(ex, items,
                           [unique EXCEPT ![first].file = Null,
                                          ![first].files = IF has THEN files
                                                           ELSE Append(files, item.file)],
                           i + 1)

\* removeDuplicates without the final sort
removeDuplicatesUnsorted(ex, items) == MergeItems(ex, items, <<>>, 1)

\* removeDuplicates: the merged entries sorted by text
removeDuplicates(ex, items) == SortByText(MergeItems(ex, items, <<>>, 1))

\* the extractor is not part of the behaviour
ExtractorOff ==
  /\ extractor = "TextExtractor"
  /\ sourceDir = [exists |-> FALSE, entries |-> <<>>, contents |-> EmptyMap]
  /\ epc = "off"
  /\ scanList = <<>>
  /\ scanIdx = 0
  /\ extractedTexts = <<>>
  /\ processedFiles = 0
  /\ failedFiles = {}

\* new TextExtractor(sourceDir) / new VueSFCExtractor(sourceDir)
ExtractorInit ==
  /\ extractor \in {"TextExtractor", "VueSFCExtractor"}
  /\ sourceDir \in
       {[exists |-> FALSE, entries |-> <<>>, contents |-> EmptyMap]} \cup
       {[exists |-> TRUE, entries |-> l,
         contents |-> [f \in SourcePaths |->
                         IF f = "App.vue" THEN v
                         ELSE IF f = "src/main.ts" THEN s
                         ELSE OtherFileContent]] :
          l \in RootListings, v \in VueContents, s \in ScriptContents}
  /\ epc = "idle"
  /\ scanList = <<>>
  /\ scanIdx = 0
  /\ extractedTexts = <<>>
  /\ processedFiles = 0
  /\ failedFiles = {}

\* extractTexts when the source directory does not exist: throws, main exits
ExtractTextsMissing ==
  /\ epc = "idle"
  /\ ~sourceDir.exists
  /\ epc' = "aborted"
  /\ UNCHANGED <<extractor, sourceDir, scanList, scanIdx, extractedTexts,
                 processedFiles, failedFiles>>
  /\ UNCHANGED <<tvars, rvars, cvars>>

\* the end of extractTexts: removeDuplicates, then extracted-text.json is written
WriteExtracted(items) ==
  /\ extractedFile' = [exists |-> TRUE, texts |-> removeDuplicates(extractor, items)]
  /\ epc' = "done"

\* after the file at scanIdx: the next file, or the end of extractTexts
NextFileOrWrite(items) ==
  IF scanIdx < Len(scanList)
  THEN /\ scanIdx' = scanIdx + 1
       /\ epc' = "scan"
       /\ UNCHANGED extractedFile
  ELSE /\ WriteExtracted(items)
       /\ UNCHANGED scanIdx

\* extractTexts up to the first file scanDirectory processes
ExtractTextsStart ==
  /\ epc = "idle"
  /\ sourceDir.exists
  /\ LET files == scanDirectory(extractor, sourceDir.entries, 1)
     IN  /\ scanList' = files
         /\ IF files # <<>>
            THEN /\ scanIdx' = 1
                 /\ epc' = "scan"
                 /\ UNCHANGED extractedFile
            ELSE /\ WriteExtracted(extractedTexts)
                 /\ UNCHANGED scanIdx
  /\ UNCHANGED <<extractor, sourceDir, extractedTexts, processedFiles, failedFiles>>
  /\ UNCHANGED <<cacheFile, translationsFile, mappingFile, pc, runs, requestLog,
                 awaiting, outstanding, model,
                 targetLanguage, cache, translations, processedCount, totalCount,
                 cacheHits, apiCalls, batches, batchIdx, itemIdx, saved>>
  /\ UNCHANGED <<rvars, cvars>>

\* processFile / processVueFile / processJSFile on the file at scanIdx, nothing throws
ExtractFileOk ==
  /\ epc = "scan"
  /\ LET f == scanList[scanIdx]
         items == extractedTexts \o ExtractFile(extractor, sourceDir.contents[f], f)
     IN  /\ extractedTexts' = items
         /\ processedFiles' = processedFiles + 1
         /\ NextFileOrWrite(items)
  /\ UNCHANGED <<extractor, sourceDir, scanList, failedFiles>>
  /\ UNCHANGED <<cacheFile, translationsFile, mappingFile, pc, runs, requestLog,
                 awaiting, outstanding, model,
                 targetLanguage, cache, translations, processedCount, totalCount,
                 cacheHits, apiCalls, batches, batchIdx, itemIdx, saved>>
  /\ UNCHANGED <<rvars, cvars>>

\* the same, readFileSync (or parseSFC) throws: the catch block logs and the
\* file is skipped
ExtractFileError ==
  /\ epc = "scan"
  /\ failedFiles' = failedFiles \cup {scanList[scanIdx]}
  /\ NextFileOrWrite(extractedTexts)
  /\ UNCHANGED <<extractor, sourceDir, scanList, extractedTexts, processedFiles>>
  /\ UNCHANGED <<cacheFile, translationsFile, mappingFile, pc, runs, requestLog,
                 awaiting, outstanding, model,
                 targetLanguage, cache, translations, processedCount, totalCount,
                 cacheHits, apiCalls, batches, batchIdx, itemIdx, saved>>
  /\ UNCHANGED <<rvars, cvars>>

ExtractorNext ==
  \/ ExtractTextsMissing
  \/ ExtractTextsStart
  \/ ExtractFileOk
  \/ ExtractFileError

-----------------------------------------------------------------------------
(* The workflow: jobs translate, build-platforms and create-release *)

\* the matrix of build-platforms
Platforms == {"linux", "windows", "macos"}

\* the workflow is not part of the behaviour
WorkflowOff ==
  wf = [dryRun |-> FALSE, step |-> "off", failed |-> FALSE, replaced |-> FALSE,
        translated |-> "", tarball |-> FALSE, uploaded |-> FALSE,
        builds |-> [p \in Platforms |-> "none"], released |-> FALSE]

\* workflow_dispatch with the input dry_run
WorkflowInit ==
  \E d \in BOOLEAN :
    wf = [dryRun |-> d, step |-> "setup", failed |-> FALSE, replaced |-> FALSE,
          translated |-> "", tarball |-> FALSE, uploaded |-> FALSE,
          builds |-> [p \in Platforms |-> "none"], released |-> FALSE]

WorkflowRest == UNCHANGED <<tvars, rvars, evars, call, svars>>

\* the steps before the scripts: checkouts, Node.js, pnpm, cache restore; a
\* failing step fails the job
SetupSteps ==
  /\ wf.step = "setup"
  /\ \E ok \in BOOLEAN : wf' = [wf EXCEPT !.step = "scripts", !.failed = ~ok]
  /\ WorkflowRest

\* step "Extract and translate text": vue-sfc-extractor.js, translate-text.js,
\* replace-text.js apps/app-frontend, rm -rf of the backup.  The shell stops
\* at the first command that fails (n commands succeed); replace-text.js
\* rewrites the source files in which a mapping key matches.
ExtractAndTranslate ==
  /\ wf.step = "scripts"
  /\ IF wf.failed
     THEN wf' = [wf EXCEPT !.step = "saveCache"]
     ELSE \E n \in 0..4, matched \in BOOLEAN :
            wf' = [wf EXCEPT !.step = "saveCache",
                             !.failed = (n < 4),
                             !.replaced = (n >= 3 /\ matched)]
  /\ WorkflowRest

\* step "Save translation cache": if: always()
SaveTranslationCache ==
  /\ wf.step = "saveCache"
  /\ \E ok \in BOOLEAN :
       wf' = [wf EXCEPT !.step = "prepare", !.failed = wf.failed \/ ~ok]
  /\ WorkflowRest

\* step "Prepare release": if: !inputs.dry_run; tars the working tree
PrepareRelease ==
  /\ wf.step = "prepare"
  /\ IF ~wf.failed /\ ~wf.dryRun
     THEN \E ok \in BOOLEAN :
            wf' = [wf EXCEPT !.step = "outputs", !.failed = ~ok, !.tarball = ok]
     ELSE wf' = [wf EXCEPT !.step = "outputs"]
  /\ WorkflowRest

\* step "Set outputs": translated=false on a dry run, else translated=true
SetOutputs ==
  /\ wf.step = "outputs"
  /\ IF ~wf.failed
     THEN wf' = [wf EXCEPT !.step = "upload",
                           !.translated = IF wf.dryRun THEN "false" ELSE "true"]
     ELSE wf' = [wf EXCEPT !.step = "upload"]
  /\ WorkflowRest

\* steps "Generate release tag", "Upload translation artifacts" and "Upload
\* translated source code" (the last: if: !inputs.dry_run), then the end of
\* the job translate
UploadSteps ==
  /\ wf.step = "upload"
  /\ IF ~wf.failed
     THEN \E ok \in BOOLEAN :
            wf' = [wf EXCEPT !.step = "jobs", !.failed = ~ok,
                             !.uploaded = ok /\ ~wf.dryRun]
     ELSE wf' = [wf EXCEPT !.step = "jobs"]
  /\ WorkflowRest

\* build-platforms: needs translate, if: needs.translate.outputs.translated == 'true'
BuildsWanted == ~wf.failed /\ wf.translated = "true"

\* one job of the matrix build-platforms (fail-fast: false)
BuildPlatform(p) ==
  /\ wf.step = "jobs"
  /\ BuildsWanted
  /\ wf.builds[p] = "none"
  /\ \E r \in {"success", "failure"} : wf' = [wf EXCEPT !.builds[p] = r]
  /\ WorkflowRest

\* create-release: needs translate and build-platforms, if: translated == 'true'
\* and needs.build-platforms.result == 'success'
CreateRelease ==
  /\ wf.step = "jobs"
  /\ BuildsWanted
  /\ \A p \in Platforms : wf.builds[p] # "none"
  /\ wf' = [wf EXCEPT !.step = "end",
                      !.released = \A p \in Platforms : wf.builds[p] = "success"]
  /\ WorkflowRest

\* build-platforms and create-release are skipped
SkipBuilds ==
  /\ wf.step = "jobs"
  /\ ~BuildsWanted
  /\ wf' = [wf EXCEPT !.step = "end"]
  /\ WorkflowRest

WorkflowNext ==
  \/ SetupSteps
  \/ ExtractAndTranslate
  \/ SaveTranslationCache
  \/ PrepareRelease
  \/ SetOutputs
  \/ UploadSteps
  \/ \E p \in Platforms : BuildPlatform(p)
  \/ CreateRelease
  \/ SkipBuilds

-----------------------------------------------------------------------------
(* saveCache and the clock *)

\* the clock is not part of the behaviour
ClockOff ==
  /\ now = 0
  /\ lastUpdated = 0
  /\ sinceSave = "none"

\* a cache file an earlier run with another configuration wrote
OtherConfigCacheFile ==
  [kind |-> "valid",
   cache |-> (ItemAt(1).text \o <<"|">> \o Gpt4 \o <<"|">> \o Chinese \o <<"|">>
                \o ItemAt(1).context)
             :> [original |-> ItemAt(1).text, translated |-> TranslationOf(1),
                 context |-> ItemAt(1).context, model |-> Gpt4,
                 targetLanguage |-> Chinese]]

\* an AITranslator has been constructed; translation-cache.json is absent,
\* unreadable, or holds another configuration's entry
SaveInit ==
  /\ extractedFile = AbsentExtracted
  /\ cacheFile \in {AbsentCacheFile, CorruptCacheFile, OtherConfigCacheFile}
  /\ translationsFile = AbsentTranslations
  /\ mappingFile = AbsentMapping
  /\ pc = "off"
  /\ runs = 0
  /\ requestLog = <<>>
  /\ awaiting = FALSE
  /\ outstanding = 0
  /\ model = GptMini
  /\ targetLanguage = Chinese
  /\ cache = EmptyMap
  /\ translations = <<>>
  /\ processedCount = 0
  /\ totalCount = 0
  /\ cacheHits = 0
  /\ apiCalls = 0
  /\ batches = <<>>
  /\ batchIdx = 0
  /\ itemIdx = 0
  /\ saved = FALSE
  /\ now = 0
  /\ lastUpdated = 0
  /\ sinceSave = "none"

\* time passes
Tick ==
  /\ now < MaxClock
  /\ now' = now + 1
  /\ UNCHANGED <<lastUpdated, sinceSave, call, wf>>
  /\ UNCHANGED <<tvars, rvars, evars>>

\* a call of setCachedTranslation
SetCached ==
  /\ \E i \in 1..MaxTexts :
       \E translated \in {TranslationOf(1), ItemAt(i).text} :
         cache' = setCachedTranslation(cache, ItemAt(i).text, translated,
                                       ItemAt(i).context)
  /\ sinceSave' = "dirty"
  /\ UNCHANGED <<now, lastUpdated, call, wf>>
  /\ UNCHANGED <<extractedFile, cacheFile, translationsFile, mappingFile, pc, runs,
                 requestLog, awaiting, outstanding, model, targetLanguage, translations, processedCount, totalCount,
                 cacheHits, apiCalls, batches, batchIdx, itemIdx, saved>>
  /\ UNCHANGED <<rvars, evars>>

\* a call of saveCache: the merged entries are written with
\* lastUpdated: new Date().toISOString()
SaveCache ==
  /\ cacheFile' = saveCache(cacheFile, cache)
  /\ lastUpdated' = now
  /\ sinceSave' = "saved"
  /\ UNCHANGED <<now, call, wf>>
  /\ UNCHANGED <<extractedFile, translationsFile, mappingFile, pc, runs, requestLog,
                 awaiting, outstanding, model,
                 targetLanguage, cache, translations, processedCount, totalCount,
                 cacheHits, apiCalls, batches, batchIdx, itemIdx, saved>>
  /\ UNCHANGED <<rvars, evars>>

SaveNext == Tick \/ SetCached \/ SaveCache

-----------------------------------------------------------------------------
(* Specifications *)

vars == <<tvars, rvars, cvars, evars>>

\* the replacer is not running
ReplacerIdle ==
  /\ srcTree = [f \in FileIds |-> OtherContent]
  /\ backup = AbsentBackup
  /\ rpc = "idle"
  /\ rruns = 0
  /\ replacements = <<>>
  /\ fileIdx = 0
  /\ reportData = NewReportData
  /\ totalReplacements = 0
  /\ reportFile = AbsentReport
  /\ runStart = [tree |-> srcTree, backup |-> backup]
  /\ written = {}
  /\ warned = {}

\* the translator is not running; translation-mapping.json is what an earlier
\* translator run left, if any
TranslatorIdle ==
  /\ extractedFile = AbsentExtracted
  /\ cacheFile = AbsentCacheFile
  /\ translationsFile = AbsentTranslations
  /\ mappingFile \in {AbsentMapping} \cup
                     {[exists |-> TRUE, entries |-> m] : m \in MappingContents}
  /\ pc = "idle"
  /\ runs = 0
  /\ requestLog = <<>>
  /\ awaiting = FALSE
  /\ outstanding = 0
  /\ model = GptMini
  /\ targetLanguage = Chinese
  /\ cache = EmptyMap
  /\ translations = <<>>
  /\ processedCount = 0
  /\ totalCount = 0
  /\ cacheHits = 0
  /\ apiCalls = 0
  /\ batches = <<>>
  /\ batchIdx = 0
  /\ itemIdx = 0
  /\ saved = FALSE

Init == TranslatorInit /\ ReplacerIdle /\ call = NoCall /\ ClockOff /\ WorkflowOff /\ ExtractorOff

Next == TranslatorNext

\* the translator: up to MaxRuns runs of translate-text.js in one working directory
Spec == Init /\ [][Next]_vars

ReplaceInit == TranslatorIdle /\ ReplacerInit /\ call = NoCall /\ ClockOff /\ WorkflowOff /\ ExtractorOff

\* the replacer: up to MaxReplacerRuns runs of replace-text.js on one source tree
SpecReplace == ReplaceInit /\ [][ReplacerNext]_vars

BatchInit ==
  TranslatorIdle /\ mappingFile = AbsentMapping /\ ReplacerIdle /\ CallInit /\ ClockOff /\ WorkflowOff
    /\ ExtractorOff

\* one successful batch response, for every batch and every response
SpecBatch == BatchInit /\ [][ParseAndStore]_vars

\* the translator is not part of the behaviour
TranslatorOff ==
  /\ cacheFile = AbsentCacheFile
  /\ translationsFile = AbsentTranslations
  /\ pc = "off"
  /\ runs = 0
  /\ requestLog = <<>>
  /\ awaiting = FALSE
  /\ outstanding = 0
  /\ model = GptMini
  /\ targetLanguage = Chinese
  /\ cache = EmptyMap
  /\ translations = <<>>
  /\ processedCount = 0
  /\ totalCount = 0
  /\ cacheHits = 0
  /\ apiCalls = 0
  /\ batches = <<>>
  /\ batchIdx = 0
  /\ itemIdx = 0
  /\ saved = FALSE

\* the replacer is not part of the behaviour
ReplacerOff ==
  /\ srcTree = [f \in FileIds |-> OtherContent]
  /\ backup = AbsentBackup
  /\ rpc = "off"
  /\ rruns = 0
  /\ replacements = <<>>
  /\ fileIdx = 0
  /\ reportData = NewReportData
  /\ totalReplacements = 0
  /\ reportFile = AbsentReport
  /\ runStart = [tree |-> srcTree, backup |-> backup]
  /\ written = {}
  /\ warned = {}

\* one stage of the workflow is run: the extractor, the translator or the replacer
StagesInit ==
  /\ call = NoCall /\ ClockOff /\ WorkflowOff
  /\ \/ TranslatorInit /\ ReplacerOff /\ ExtractorOff
     \/ /\ TranslatorOff /\ ExtractorOff /\ ReplacerInit
        /\ extractedFile = AbsentExtracted
        /\ mappingFile \in {AbsentMapping} \cup
                           {[exists |-> TRUE, entries |-> m] : m \in MappingContents}
     \/ /\ TranslatorOff /\ ReplacerOff /\ ExtractorInit
        /\ mappingFile = AbsentMapping
        /\ extractedFile \in {AbsentExtracted, [exists |-> TRUE, texts |-> <<>>]}

StagesNext == TranslatorNext \/ ReplacerNext \/ ExtractorNext

\* the last run of the translator finds a damaged cache file
DamagedInit ==
  /\ extractedFile \in {AbsentExtracted} \cup
                       {[exists |-> TRUE, texts |-> l] : l \in ExtractedLists}
  /\ cacheFile \in DamagedCacheFiles
  /\ translationsFile = AbsentTranslations
  /\ mappingFile = AbsentMapping
  /\ pc = "idle"
  /\ runs = MaxRuns - 1
  /\ requestLog = <<>>
  /\ awaiting = FALSE
  /\ outstanding = 0
  /\ model = GptMini
  /\ targetLanguage = Chinese
  /\ cache = EmptyMap
  /\ translations = <<>>
  /\ processedCount = 0
  /\ totalCount = 0
  /\ cacheHits = 0
  /\ apiCalls = 0
  /\ batches = <<>>
  /\ batchIdx = 0
  /\ itemIdx = 0
  /\ saved = FALSE
  /\ ReplacerIdle /\ call = NoCall /\ ClockOff /\ WorkflowOff /\ ExtractorOff

\* the script runs to its end: every step of a run is eventually taken
SpecDamaged == DamagedInit /\ [][Next]_vars /\ WF_vars(Next)

SaveStart ==
  SaveInit /\ ReplacerIdle /\ call = NoCall /\ WorkflowOff /\ ExtractorOff

\* calls of setCachedTranslation and saveCache on one AITranslator, as time passes
SpecSave == SaveStart /\ [][SaveNext]_vars

WorkflowStart ==
  /\ TranslatorOff /\ extractedFile = AbsentExtracted /\ mappingFile = AbsentMapping
  /\ ReplacerOff /\ ExtractorOff /\ call = NoCall /\ ClockOff /\ WorkflowInit

\* one run of the workflow, for every input and every outcome of its steps
SpecWorkflow == WorkflowStart /\ [][WorkflowNext]_vars

\* the three stages, each on its own inputs
SpecStages == StagesInit /\ [][StagesNext]_vars

ExtractInit ==
  TranslatorIdle /\ mappingFile = AbsentMapping /\ ReplacerIdle /\ call = NoCall /\ ClockOff /\ WorkflowOff
    /\ ExtractorInit

\* one run of either extractor on a source directory, for every listing order
SpecExtract == ExtractInit /\ [][ExtractorNext]_vars

-----------------------------------------------------------------------------
(* Properties of the translator *)

\* the result recorded for `text`, a sequence of at most one element
ResultsFor(ts, text) == SelectSeq(ts, LAMBDA r : r.original = text)

\* the entries of a cache file that belong to the configuration (m, l)
EntriesOf(file, m, l) ==
  {k \in DOMAIN file.cache : file.cache[k].model = m /\ file.cache[k].targetLanguage = l}

\* C1: cache isolation.  Every entry of the in-memory cache carries the model
\* and the target language of the running translator, every result served from
\* the cache comes from such an entry, and while the cache file holds no entry
\* of the running configuration the run has no cache hit at all.
C1_CacheIsolation ==
  /\ \A k \in DOMAIN cache :
        cache[k].model = model /\ cache[k].targetLanguage = targetLanguage
  /\ \A i \in 1..Len(translations) :
        translations[i].fromCache =>
          \E k \in DOMAIN cache :
            /\ cache[k].original = translations[i].original
            /\ cache[k].translated = translations[i].translated
            /\ cache[k].model = model
            /\ cache[k].targetLanguage = targetLanguage
  /\ (pc \in {"constructed", "batch", "indiv"}
        /\ EntriesOf(cacheFile, model, targetLanguage) = {}) =>
       /\ cacheHits = 0
       /\ \A i \in 1..Len(translations) : ~translations[i].fromCache
       /\ (pc = "constructed" /\ extractedFile.exists) =>
            separateCachedTexts(cache, extractedFile.texts).cachedTexts = <<>>

\* a run in its batches whose cache file holds translations of its first text
\* made under another configuration only, and that has counted no hit
C1_Witness ==
  /\ pc = "batch"
  /\ cacheFile.kind = "valid"
  /\ EntriesOf(cacheFile, model, targetLanguage) = {}
  /\ \E k \in DOMAIN cacheFile.cache :
        /\ cacheFile.cache[k].original = extractedFile.texts[1].text
        /\ Truthy(cacheFile.cache[k].translated)
  /\ cacheHits = 0

\* C2: saveCache merges.  A step that writes the cache file keeps every entry
\* of the file whose key is not in the in-memory cache, unchanged.
C2_SaveCacheMerges ==
  [][cacheFile' # cacheFile =>
       \A k \in DOMAIN cacheFile.cache \ DOMAIN cache' :
         /\ k \in DOMAIN cacheFile'.cache
         /\ cacheFile'.cache[k] = cacheFile.cache[k]]_vars

\* a run has saved its own entries and the file still holds an entry of
\* another configuration
C2_Witness ==
  /\ pc = "done"
  /\ saved
  /\ DOMAIN cache # {}
  /\ \A k \in DOMAIN cache : k \in DOMAIN cacheFile.cache
  /\ \E k \in DOMAIN cacheFile.cache :
        k \notin DOMAIN cache /\ cacheFile.cache[k].model # model

\* C3: cache round trip.  When a run that saved its cache is followed by a
\* translator constructed with the same model and target language, every
\* entry the first run held is found by getCachedTranslation with the same
\* translated text.
C3_CacheRoundTrip ==
  [][(pc = "done" /\ saved /\ pc' = "constructed"
        /\ model' = model /\ targetLanguage' = targetLanguage) =>
       \A k \in DOMAIN cache :
         getCachedTranslation(cache', cache[k].original, cache[k].context)
           = cache[k].translated]_vars

\* C4: mapping exclusion law.  After saveTranslations the mapping has a key
\* for a result exactly when its translated text differs from its original,
\* and the value under that key is the translated text.
C4_MappingExclusion ==
  (pc = "done" /\ saved) =>
    /\ mappingFile.exists
    /\ \A i \in 1..Len(translations) :
         LET r == translations[i]
             hits == {j \in 1..Len(mappingFile.entries) :
                        mappingFile.entries[j][1] = r.original}
         IN  /\ (r.translated # r.original) <=> (hits # {})
             /\ \A j \in hits : mappingFile.entries[j][2] = r.translated
    /\ \A j \in 1..Len(mappingFile.entries) :
         \E i \in 1..Len(translations) :
           translations[i].original = mappingFile.entries[j][1]

\* a saved run with a result left out of the mapping (an error fallback) and
\* one that is in it
C4_Witness ==
  /\ pc = "done"
  /\ saved
  /\ \E i \in 1..Len(translations) :
        translations[i].error /\ translations[i].translated = translations[i].original
  /\ \E i \in 1..Len(translations) :
        /\ translations[i].translated # translations[i].original
        /\ \E j \in 1..Len(mappingFile.entries) :
              mappingFile.entries[j][1] = translations[i].original

\* C5: translated is never empty.  Every recorded result has a non-empty
\* translated text, and a result with the error flag has translated = original.
C5_TranslatedNeverEmpty ==
  \A i \in 1..Len(translations) :
    /\ translations[i].translated # <<>>
    /\ translations[i].error => translations[i].translated = translations[i].original

\* C6: failure handling.  A run is never aborted once it has started on its
\* batches; a failed batch is retried item by item, every item of the batch
\* getting a result; a step that records an error result records
\* translated = original with fromCache false and leaves the cache as it was;
\* and the run ends with a result for every text and with its outputs saved.
C6_FailureContained ==
  [][/\ (pc' = "aborted" => batches' = <<>>)
     /\ (pc = "batch" /\ pc' = "indiv") => (itemIdx' = 1 /\ batchIdx' = batchIdx)
     /\ (pc = "indiv" /\ pc' # "aborted" /\ awaiting' = FALSE) =>
          /\ ResultsFor(translations', batches[batchIdx][itemIdx].text) # <<>>
          /\ (pc' = "indiv" => (batchIdx' = batchIdx /\ itemIdx' = itemIdx + 1))
          /\ (pc' # "indiv" => itemIdx = Len(batches[batchIdx]))
     /\ \A i \in 1..Len(translations') :
          (/\ translations'[i].error
           /\ (i > Len(translations) \/ translations[i] # translations'[i])) =>
             /\ translations'[i].translated = translations'[i].original
             /\ ~translations'[i].fromCache
             /\ cache' = cache
     /\ (pc' = "done" /\ batches' # <<>>) =>
          /\ saved'
          /\ batchIdx' = Len(batches')
          /\ \A i \in 1..Len(extractedFile'.texts) :
               ResultsFor(translations', extractedFile'.texts[i].text) # <<>>
          /\ translationsFile'.translations = translations'
          /\ \A k \in DOMAIN cache' :
               k \in DOMAIN cacheFile'.cache /\ cacheFile'.cache[k] = cache'[k]]_vars

\* a saved run of two batches whose first batch failed, its second item
\* failing again, and whose second batch was translated
C6_Witness ==
  /\ pc = "done"
  /\ saved
  /\ Len(batches) = 2
  /\ \E i \in 1..Len(translations) :
        translations[i].error /\ translations[i].original = batches[1][2].text
  /\ \E i \in 1..Len(translations) :
        /\ translations[i].context = batches[2][1].context
        /\ translations[i].translated # translations[i].original
        /\ ~translations[i].error

\* the lines of a response that carry an ordinal label
LabelledLines(response) ==
  Len(SelectSeq(response, LAMBDA line :
        \E n \in 1..9 : Len(line) > 3 /\ SubSeq(line, 1, 3) = Label(n)))

\* C7: short batch response.  When the response has fewer labelled lines than
\* the batch has items, parseBatchResponse returns at least as many entries as
\* the batch, every missing tail position holds the original text of its
\* item, and the result of that item has translated = original with
\* fromCache false and no error flag.
C7_ShortResponsePadded ==
  (call.phase = "stored" /\ LabelledLines(call.response) < Len(call.batch)) =>
    /\ Len(call.parsed) >= Len(call.batch)
    /\ \A i \in (LabelledLines(call.response) + 1)..Len(call.batch) :
         /\ call.parsed[i] = call.batch[i].text
         /\ \E j \in 1..Len(call.translations) :
               /\ call.translations[j].original = call.batch[i].text
               /\ call.translations[j].translated = call.batch[i].text
               /\ ~call.translations[j].fromCache
               /\ ~call.translations[j].error

\* a batch of two items answered with one labelled line: the first item is
\* translated, the second keeps its original text
C7_Witness ==
  /\ call.phase = "stored"
  /\ Len(call.batch) = 2
  /\ LabelledLines(call.response) = 1
  /\ call.parsed[1] = TranslationOf(1)
  /\ call.parsed[2] = call.batch[2].text

-----------------------------------------------------------------------------
(* Properties of the replacer *)

\* the start positions at which `key` occurs in `content` as an exact substring
Occurrences(content, key) ==
  {i \in 1..Len(content) :
     /\ i + Len(key) - 1 <= Len(content)
     /\ SubSeq(content, i, i + Len(key) - 1) = key}

\* no two occurrences of mapping keys in `content` share a character
KeysDoNotOverlap(content, m) ==
  \A a, b \in 1..Len(m) :
    \A i \in Occurrences(content, m[a][1]) :
      \A j \in Occurrences(content, m[b][1]) :
        (a # b \/ i # j) =>
          \/ i + Len(m[a][1]) <= j
          \/ j + Len(m[b][1]) <= i

\* C8 (as claimed): for every file processFile rewrote in this run and every
\* valid mapping key that occurred N >= 1 times in the file before the run, the
\* keys not overlapping, the report lists the key with occurrences = N and the
\* rewritten file holds no occurrence of the key
C8_OccurrencesCounted ==
  \A c \in 1..Len(reportData.fileChanges) :
    LET fc == reportData.fileChanges[c]
        before == runStart.tree[fc.file]
    IN  KeysDoNotOverlap(before, replacements) =>
          \A k \in 1..Len(replacements) :
            LET key == replacements[k][1]
                N == Cardinality(Occurrences(before, key))
            IN  (N >= 1 /\ key # replacements[k][2]) =>
                  /\ \E x \in 1..Len(fc.changes) :
                       /\ fc.changes[x].original = key
                       /\ fc.changes[x].occurrences = N
                  /\ Occurrences(srcTree[fc.file], key) = {}

\* C9: no source file is written before createBackup has completed, and when
\* the backup directory did not exist at the start of the run, every file the
\* run has rewritten has a copy in the backup directory that holds the file's
\* content from before the run
C9_BackupPrecedesMutation ==
  /\ rpc \in {"loaded", "aborted"} => srcTree = runStart.tree
  /\ rpc = "process" => backup.exists
  /\ (rpc \in {"process", "done"} /\ ~runStart.backup.exists /\ backup.exists) =>
       \A f \in FileIds :
         srcTree[f] # runStart.tree[f] =>
           /\ f \in DOMAIN backup.files
           /\ backup.files[f] = runStart.tree[f]

\* a run that started without a backup directory has rewritten a file in a
\* subdirectory and its backup is still there
C9_Witness ==
  /\ rpc = "done"
  /\ ~runStart.backup.exists
  /\ backup.exists
  /\ \E f \in FileIds : Tree[f].dirs # <<>> /\ srcTree[f] # runStart.tree[f]

\* C10: no step of a replacer run changes a backup directory that exists; only
\* the workflow's removal of the directory does
C10_BackupUntouched ==
  [][backup.exists => (backup' = backup \/ RemoveBackup)]_vars

\* a run that started with the backup directory in place has rewritten a file
C10_Witness ==
  /\ rpc = "done"
  /\ runStart.backup.exists
  /\ backup = runStart.backup
  /\ srcTree # runStart.tree

\* C11: the replacer always completes and reports.  Whenever
\* translation-mapping.json exists, a run of replaceTexts ends completed, never
\* aborted, and replacement-report.json holds the report of that run.
C11_AlwaysReports ==
  (mappingFile.exists /\ rruns > 0 /\ rpc \in {"done", "aborted"}) =>
    /\ rpc = "done"
    /\ reportFile.exists
    /\ reportFile.data = reportData

\* C12: mapping validation.  The replacements map never holds a pair whose key
\* or value is empty or whose key equals its value, and every pair it holds is
\* the trimmed form of an entry of translation-mapping.json.
C12_ValidPairsOnly ==
  \A i \in 1..Len(replacements) :
    /\ replacements[i][1] # <<>>
    /\ replacements[i][2] # <<>>
    /\ replacements[i][1] # replacements[i][2]
    /\ \E j \in 1..Len(mappingFile.entries) :
         /\ Truthy(mappingFile.entries[j][1])
         /\ Truthy(mappingFile.entries[j][2])
         /\ Trim(mappingFile.entries[j][1]) = replacements[i][1]
         /\ Trim(mappingFile.entries[j][2]) = replacements[i][2]

\* a key of the replacements map that differs from its value occurs in the
\* content the file had when the run started
Matched(f) ==
  \E k \in 1..Len(replacements) :
    /\ replacements[k][1] # replacements[k][2]
    /\ Occurrences(runStart.tree[f], replacements[k][1]) # {}

\* the file is listed in reportData.fileChanges
Listed(f) ==
  \E c \in 1..Len(reportData.fileChanges) : reportData.fileChanges[c].file = f

RECURSIVE SumOccurrences(_)
SumOccurrences(changes) ==
  IF changes = <<>> THEN 0
  ELSE Head(changes).occurrences + SumOccurrences(Tail(changes))

RECURSIVE SumReplacements(_)
SumReplacements(fileChanges) ==
  IF fileChanges = <<>> THEN 0
  ELSE Head(fileChanges).replacements + SumReplacements(Tail(fileChanges))

\* the totals of a finished run: totalReplacements is the sum over the listed
\* files, and a file's replacements is the sum of its changes' occurrences
TotalsAddUp ==
  /\ reportData.totalReplacements = SumReplacements(reportData.fileChanges)
  /\ \A c \in 1..Len(reportData.fileChanges) :
       reportData.fileChanges[c].replacements =
         SumOccurrences(reportData.fileChanges[c].changes)

\* C13 as stated: when a run is done, a visited file is rewritten iff it is
\* listed iff a mapping key matched in it, a file without a match is left as
\* it was, and the totals add up.
C13_RewrittenIffListedIffMatched ==
  rpc = "done" =>
    /\ \A i \in 1..Len(ProcessOrder) :
         LET f == ProcessOrder[i]
         IN  /\ (f \in written) <=> Listed(f)
             /\ Listed(f) <=> Matched(f)
             /\ ~Matched(f) => srcTree[f] = runStart.tree[f]
    /\ TotalsAddUp

\* C13 amended: when a run is done, a visited file is rewritten iff it is
\* listed iff a mapping key matched in it and neither reading nor writing the
\* file failed; every other file is left as it was; and the totals add up.
C13_RewrittenIffListed ==
  rpc = "done" =>
    /\ \A i \in 1..Len(ProcessOrder) :
         LET f == ProcessOrder[i]
         IN  /\ (f \in written) <=> Listed(f)
             /\ Listed(f) <=> (Matched(f) /\ f \notin warned)
             /\ ~Listed(f) => srcTree[f] = runStart.tree[f]
    /\ TotalsAddUp

\* a finished run with a file that was rewritten and listed, a file whose key
\* matched but whose processing failed, and a file without a match
C13_Witness ==
  /\ rpc = "done"
  /\ \E f \in FileIds : f \in written /\ Listed(f) /\ srcTree[f] # runStart.tree[f]
  /\ \E f \in FileIds : IsProcessed(f) /\ Matched(f) /\ f \in warned /\ ~Listed(f)
  /\ reportData.totalReplacements > 0

-----------------------------------------------------------------------------
(* Properties of the extractors *)

\* the files under `entries` that have a processed extension, are outside the
\* skipped directories and are not configuration files
RECURSIVE SupportedFiles(_)
SupportedFiles(entries) ==
  UNION { IF entries[i].isDir
          THEN (IF entries[i].name \notin ExtractSkippedDirs
                THEN SupportedFiles(entries[i].children)
                ELSE {})
          ELSE (IF entries[i].name \notin SkipFiles /\ entries[i].ext \in ExtractedExts
                THEN {entries[i].path}
                ELSE {})
          : i \in 1..Len(entries) }

\* the files scanDirectory has handed to a file processor
ScannedFiles == {scanList[i] : i \in 1..Len(scanList)}

\* C14: in both extractors every file with a processed extension that is not
\* inside a skipped directory and is not a configuration file is processed,
\* whatever else its directory holds and in whatever order it is listed.
C14_EverySupportedFileScanned ==
  epc = "done" => SupportedFiles(sourceDir.entries) \subseteq ScannedFiles


\* the files scanDirectory has finished with
FinishedFiles ==
  {scanList[i] : i \in {j \in 1..Len(scanList) : j < scanIdx \/ epc = "done"}}

\* an item with this text, file and context is in this.extractedTexts
Extracted(text, file, context) ==
  \E k \in 1..Len(extractedTexts) :
    /\ extractedTexts[k].text = text
    /\ extractedTexts[k].file = file
    /\ extractedTexts[k].context = context

\* C15: in VueSFCExtractor an error in one file never aborts the extraction:
\* the other files are still processed and extracted-text.json is written, and
\* a script Babel cannot parse is handed to extractFromScriptRegex, whose
\* matches are extracted from that same script.
C15_FileErrorsContained ==
  (extractor = "VueSFCExtractor" /\ sourceDir.exists) =>
    /\ epc # "aborted"
    /\ epc = "done" =>
         /\ extractedFile.exists
         /\ FinishedFiles = ScannedFiles
         /\ processedFiles = Cardinality(ScannedFiles \ failedFiles)
    /\ \A f \in FinishedFiles \ failedFiles :
         LET content == sourceDir.contents[f]
         IN  /\ \A k \in 1..Len(content.template) :
                  Extracted(Trim(content.template[k]), f, "template-text")
             /\ \A k \in 1..Len(content.script) :
                  IF content.parses
                  THEN Extracted(Trim(content.script[k]), f, "script-string")
                  ELSE Len(content.script[k]) >= 4 =>
                         Extracted(Trim(content.script[k]), f, "script-regex")

\* a file failed, a later file whose script Babel rejects went through the
\* regex fallback, and the output was written
C15_Witness ==
  /\ extractor = "VueSFCExtractor"
  /\ epc = "done"
  /\ extractedFile.exists
  /\ \E i, j \in 1..Len(scanList) :
       /\ i < j
       /\ scanList[i] \in failedFiles
       /\ scanList[j] \notin failedFiles
       /\ ~sourceDir.contents[scanList[j]].parses
       /\ \E k \in 1..Len(extractedTexts) :
            /\ extractedTexts[k].file = scanList[j]
            /\ extractedTexts[k].context = "script-regex"


\* the files of an entry of the output: `files` once merged, else `file`
FileList(entry) == IF entry.files # Null THEN entry.files ELSE <<entry.file>>

\* the positions in this.extractedTexts that fall under the entry's dedup key
OccurrencesOf(entry) ==
  {k \in 1..Len(extractedTexts) :
     /\ extractedTexts[k].text = entry.text
     /\ extractor = "TextExtractor" => extractedTexts[k].context = entry.context}

\* C16: the list written to extracted-text.json is sorted by text, every text
\* is non-empty and trimmed, no two entries share a dedup key (text in
\* VueSFCExtractor, text and context in TextExtractor), an entry has the
\* context of the first occurrence of its key, and its file list holds every
\* file the text was found in, each once.
C16_OutputSortedAndMerged ==
  epc = "done" =>
    LET out == extractedFile.texts
    IN  /\ \A i \in 1..Len(out) :
             /\ out[i].text # <<>>
             /\ Trim(out[i].text) = out[i].text
             /\ OccurrencesOf(out[i]) # {}
             /\ LET first == CHOOSE k \in OccurrencesOf(out[i]) :
                               \A m \in OccurrencesOf(out[i]) : k <= m
                IN  out[i].context = extractedTexts[first].context
             /\ {FileList(out[i])[k] : k \in 1..Len(FileList(out[i]))}
                  = {extractedTexts[k].file : k \in OccurrencesOf(out[i])}
             /\ \A k, m \in 1..Len(FileList(out[i])) :
                  k # m => FileList(out[i])[k] # FileList(out[i])[m]
        /\ \A i, j \in 1..Len(out) :
             i < j =>
               /\ LocaleLessEq(out[i].text, out[j].text)
               /\ ~(/\ out[i].text = out[j].text
                    /\ extractor = "TextExtractor" => out[i].context = out[j].context)
        /\ \A k \in 1..Len(extractedTexts) :
             \E i \in 1..Len(out) : k \in OccurrencesOf(out[i])

\* the output holds an entry merged from two files, found in extraction order
\* after a text that sorts behind it
C16_Witness ==
  /\ epc = "done"
  /\ \E i \in 1..Len(extractedFile.texts) :
       /\ extractedFile.texts[i].files # Null
       /\ Len(extractedFile.texts[i].files) >= 2
       /\ Cardinality(OccurrencesOf(extractedFile.texts[i])) >= 3
  /\ Len(extractedFile.texts) >= 2
  /\ LocaleLessEq(extractedFile.texts[1].text, extractedTexts[1].text)
  /\ extractedFile.texts[1].text # extractedTexts[1].text


-----------------------------------------------------------------------------
(* Properties of the stages' preconditions *)

\* C17: a stage whose precondition fails aborts before any side effect.  The
\* constructor without OPENAI_API_KEY aborts with nothing loaded from the cache
\* file; translateTexts without extracted-text.json aborts with no provider
\* request and none of its three files written; replaceTexts without
\* translation-mapping.json aborts with no backup and no source file changed;
\* extractTexts without the source directory aborts with extracted-text.json
\* not written.
C17_AbortBeforeSideEffects ==
  [][ /\ (pc \in {"idle", "done", "aborted"} /\ pc' = "aborted" /\ runs' # runs) =>
           /\ cache' = EmptyMap
           /\ apiCalls' = 0
           /\ UNCHANGED <<extractedFile, cacheFile, translationsFile, mappingFile>>
      /\ (pc = "constructed" /\ ~extractedFile.exists) =>
           /\ pc' = "aborted"
           /\ apiCalls' = 0
           /\ UNCHANGED <<extractedFile, cacheFile, translationsFile, mappingFile>>
      /\ (rpc \in {"idle", "done", "aborted"} /\ ~mappingFile.exists) =>
           /\ rpc' = "aborted"
           /\ UNCHANGED <<srcTree, backup, reportFile, mappingFile>>
      /\ (epc = "idle" /\ ~sourceDir.exists) =>
           /\ epc' = "aborted"
           /\ UNCHANGED <<extractedFile, sourceDir>>
    ]_vars

\* the second run was started without OPENAI_API_KEY while the cache file held
\* entries of its configuration: it aborted with nothing loaded
C17_Witness ==
  /\ pc = "aborted"
  /\ runs = MaxRuns
  /\ extractedFile.exists
  /\ cacheFile.kind = "valid"
  /\ loadCache(cacheFile, model, targetLanguage) # EmptyMap
  /\ cache = EmptyMap
  /\ apiCalls = 0


-----------------------------------------------------------------------------
(* Properties of a damaged cache file *)

\* translation-cache.json is not JSON, lacks version, or has a null entry
Damaged(file) ==
  file.kind \in {"corrupt", "noversion"} \/ HasNullEntry(file)

-----------------------------------------------------------------------------
(* Properties of saveCache *)

\* C19: saveCache is idempotent: a second call, with no setCachedTranslation
\* since the first, leaves translation-cache.json with the content the first
\* call gave it (version, lastUpdated and cache).
C19_SaveTwiceSameContent ==
  [][ (sinceSave = "saved" /\ sinceSave' = "saved" /\ now' = now) =>
        /\ cacheFile' = cacheFile
        /\ lastUpdated' = lastUpdated ]_vars


-----------------------------------------------------------------------------
(* Properties of a warm-cache run *)

\* C20: when a run has completed with no result flagged error, the next run
\* with the same model, target language and extracted list, which loads the
\* cache file that run saved, makes no provider request, marks every result
\* fromCache: true and gives every text the translated value it had.
C20_WarmCacheRun ==
  [][ (/\ pc # "done" /\ pc' = "done"
       /\ runs = 2
       /\ translationsFile.exists
       /\ translationsFile.metadata.model = model
       /\ translationsFile.metadata.targetLanguage = targetLanguage
       /\ \A i \in 1..Len(translationsFile.translations) :
            ~translationsFile.translations[i].error) =>
        /\ apiCalls' = 0
        /\ \A i \in 1..Len(translations') : translations'[i].fromCache
        /\ \A i \in 1..Len(translationsFile.translations) :
             \E j \in 1..Len(translations') :
               /\ translations'[j].original = translationsFile.translations[i].original
               /\ translations'[j].translated
                    = translationsFile.translations[i].translated ]_vars


-----------------------------------------------------------------------------
(* Properties of the translator's outputs *)

\* C21: whenever translateTexts has returned without throwing, this run has
\* written translations.json and translation-mapping.json, and they describe
\* this run's extracted list, one result per unique extracted text, the
\* empty list included.
C21_OutputsWrittenOnReturn ==
  pc = "done" =>
    /\ saved
    /\ translationsFile.exists
    /\ mappingFile.exists
    /\ translationsFile.translations = translations
    /\ mappingFile.entries = MappingOf(translations)
    /\ {translations[i].original : i \in 1..Len(translations)}
         = {extractedFile.texts[i].text : i \in 1..Len(extractedFile.texts)}
    /\ \A i, j \in 1..Len(translations) :
         i # j => translations[i].original # translations[j].original


-----------------------------------------------------------------------------
(* Properties of the workflow *)

\* C22: when the input dry_run is true the workflow only analyses and
\* translates: the replace-text step never modifies the source tree, no job
\* of build-platforms runs and no release is created.
C22_DryRunChangesNothing ==
  wf.dryRun =>
    /\ ~wf.replaced
    /\ \A p \in Platforms : wf.builds[p] = "none"
    /\ ~wf.released


-----------------------------------------------------------------------------
(* Properties of the requests of a run *)

\* the positions of the log that hold a request of this kind for this batch
\* (every batch when b = 0)
RequestsAt(kind, b) ==
  {k \in 1..Len(requestLog) :
     /\ requestLog[k].kind = kind
     /\ b # 0 => requestLog[k].batch = b}

\* a delay lies between positions p and q of the log
DelayBetween(p, q) ==
  \E k \in (p + 1)..(q - 1) : requestLog[k].kind = "delay"

\* C23: within a run a delay elapses between any two consecutive batch
\* requests, and within an individual fallback between any two consecutive
\* per-item requests, whether the earlier request succeeded or failed.
C23_DelayBetweenRequests ==
  /\ \A p, q \in RequestsAt("batch", 0) : p < q => DelayBetween(p, q)
  /\ \A b \in 1..Len(batches) :
       \A p, q \in RequestsAt("item", b) : p < q => DelayBetween(p, q)


\* the requests of the log, in the order they were sent
Requests == SelectSeq(requestLog, LAMBDA e : e.kind # "delay")

\* every item of batch b has a result
BatchRecorded(b) ==
  \A i \in 1..Len(batches[b]) : ResultsFor(translations, batches[b][i].text) # <<>>

\* the items of the batches, one batch after the other
RECURSIVE Flatten(_)
Flatten(bs) == IF bs = <<>> THEN <<>> ELSE Head(bs) \o Flatten(Tail(bs))

\* s is t with some elements left out
RECURSIVE IsSubsequence(_, _)
IsSubsequence(s, t) ==
  IF s = <<>> THEN TRUE
  ELSE IF t = <<>> THEN FALSE
  ELSE IF Head(s) = Head(t) THEN IsSubsequence(Tail(s), Tail(t))
  ELSE IsSubsequence(s, Tail(t))

\* C24: at most one provider request is outstanding at any moment of a run;
\* the request for a batch is sent only after every item of the batches
\* before it has a result; and the requests follow the order of the
\* extracted list (batch by batch, a batch's own request before the requests
\* for its items, the items in their order).
C24_OneRequestAtATime ==
  /\ outstanding <= 1
  /\ awaiting <=> outstanding = 1
  /\ \A k \in 1..Len(Requests) :
       \A b \in 1..(Requests[k].batch - 1) : BatchRecorded(b)
  /\ \A k \in 1..(Len(Requests) - 1) :
       \/ Requests[k].batch < Requests[k + 1].batch
       \/ /\ Requests[k].batch = Requests[k + 1].batch
          /\ Requests[k].item < Requests[k + 1].item
  /\ pc \in {"batch", "indiv"} =>
       IsSubsequence(Flatten(batches), extractedFile.texts)

\* the request for the second batch is outstanding after the first batch failed
\* and its items were translated one by one
C24_Witness ==
  /\ awaiting
  /\ pc = "batch"
  /\ batchIdx = 2
  /\ Len(Requests) >= 3
  /\ Requests[2].kind = "item"


\* the positions of Requests that hold a request of this kind for item i of
\* batch b (i = 0 for the request of the batch itself)
SentFor(kind, b, i) ==
  {k \in 1..Len(Requests) :
     Requests[k].kind = kind /\ Requests[k].batch = b /\ Requests[k].item = i}

\* C25: bounded retry and termination.  The uncached texts are split into
\* consecutive batches of at most BatchSize items that keep the order and hold
\* each item once; each batch is requested once, and an item is requested on
\* its own at most once and only in the fallback that starts when the answer
\* to its batch's request recorded nothing; so a run sends at most
\* ceil(n / BatchSize) + n requests for n uncached texts; and a run that has
\* an extracted-text file ends, with processedCount equal to totalCount.
C25_BoundedRetry ==
  /\ [][ (pc = "constructed" /\ pc' = "batch") =>
           LET uncached == separateCachedTexts(cache, extractedFile.texts).uncachedTexts
               n == Len(uncached)
           IN  /\ Flatten(batches') = uncached
               /\ Len(batches') = (n + BatchSize - 1) \div BatchSize
               /\ \A b \in 1..Len(batches') :
                    /\ Len(batches'[b]) <= BatchSize
                    /\ b < Len(batches') => Len(batches'[b]) = BatchSize ]_vars
  /\ [][ /\ (pc # "indiv" /\ pc' = "indiv") =>
              /\ pc = "batch" /\ awaiting
              /\ translations' = translations
              /\ processedCount' = processedCount
         /\ (Len(requestLog') > Len(requestLog)
               /\ requestLog'[Len(requestLog')].kind = "item") => pc = "indiv" ]_vars
  /\ [](pc \in {"batch", "indiv", "done"} =>
          /\ \A b \in 1..Len(batches) :
               /\ Cardinality(SentFor("batch", b, 0)) <= 1
               /\ (b < batchIdx \/ pc = "done") =>
                    Cardinality(SentFor("batch", b, 0)) = 1
               /\ \A i \in 1..Len(batches[b]) :
                    Cardinality(SentFor("item", b, i)) <= 1
          /\ Len(Requests) <= Len(batches) + Len(Flatten(batches)))
  /\ [](pc = "done" => processedCount = totalCount)
  /\ (pc = "constructed" /\ extractedFile.exists) ~> (pc = "done")

\* a finished run that sent every request the bound allows: each batch's
\* request failed and every item was then requested on its own
C25_Witness ==
  /\ pc = "done"
  /\ Len(batches) = 2
  /\ Len(Requests) = Len(batches) + Len(Flatten(batches))
  /\ processedCount = totalCount


-----------------------------------------------------------------------------
(* Properties of a batch response, continued *)

\* C26: ordinal alignment.  After a batch response is stored, no item of the
\* batch has received the translation that the response labels with the
\* number of another item: neither in the parsed list nor in the recorded
\* result of an item whose text differs from that other item's text.
C26_OrdinalAlignment ==
  call.phase = "stored" =>
    \A i, j \in 1..Len(call.batch) :
      i # j =>
        /\ call.parsed[i] # TranslationOf(j)
        /\ call.batch[i].text # call.batch[j].text =>
             \A k \in 1..Len(call.translations) :
               call.translations[k].original = call.batch[i].text =>
                 call.translations[k].translated # TranslationOf(j)


-----------------------------------------------------------------------------
(* Properties of the replacer, continued *)

\* the pairs of the replacements map that processFile does not skip
ValidPairs(m) ==
  {k \in 1..Len(m) : m[k][1] # <<>> /\ m[k][2] # <<>> /\ m[k][1] # m[k][2]}

\* the simultaneous substitution of all keys on `content`, from position
\* `from` on: every occurrence of a key becomes the characters of its value,
\* and nothing written is looked at again
RECURSIVE SimultaneousSubstitution(_, _, _)
SimultaneousSubstitution(content, m, from) ==
  IF from > Len(content) THEN <<>>
  ELSE LET here == {k \in ValidPairs(m) : from \in Occurrences(content, m[k][1])}
       IN  IF here = {}
           THEN <<content[from]>> \o SimultaneousSubstitution(content, m, from + 1)
           ELSE LET k == CHOOSE x \in here : \A y \in here : x <= y
                IN  m[k][2] \o
                    SimultaneousSubstitution(content, m, from + Len(m[k][1]))

\* C27: no cascading replacement.  For every file processFile rewrote in this
\* run whose mapping keys do not overlap in the content the file had before
\* the run, the file's content is the simultaneous substitution of all keys
\* on that content.
C27_NoCascade ==
  \A c \in 1..Len(reportData.fileChanges) :
    LET fc == reportData.fileChanges[c]
        before == runStart.tree[fc.file]
    IN  (fc.file \in written /\ KeysDoNotOverlap(before, replacements)) =>
          srcTree[fc.file] = SimultaneousSubstitution(before, replacements, 1)


\* C28: literal substitution.  For every file processFile rewrote in this run
\* with a mapping of one valid pair, the file's content is the content it had
\* before the run with each occurrence of the key replaced by exactly the
\* characters of the value, also when the value contains a '$' sequence.
C28_LiteralSubstitution ==
  \A c \in 1..Len(reportData.fileChanges) :
    LET fc == reportData.fileChanges[c]
        before == runStart.tree[fc.file]
    IN  (fc.file \in written /\ Len(replacements) = 1) =>
          srcTree[fc.file] = SimultaneousSubstitution(before, replacements, 1)


-----------------------------------------------------------------------------
(* Properties of the counters of a run *)

\* C29: the cacheHits counter is an exact hit count.  At the end of
\* translateTexts it equals the number of results with fromCache true and
\* does not exceed totalCount.
C29_ExactHitCount ==
  pc = "done" =>
    /\ cacheHits = Cardinality({i \in 1..Len(translations) : translations[i].fromCache})
    /\ cacheHits <= totalCount


\* C30: in translations.json, metadata.failedTranslations is the number of
\* results with the error flag and metadata.successfulTranslations the number
\* of results without it.
C30_MetadataCountsResults ==
  translationsFile.exists =>
    LET results == translationsFile.translations
        errors == {i \in 1..Len(results) : results[i].error}
    IN  /\ translationsFile.metadata.failedTranslations = Cardinality(errors)
        /\ translationsFile.metadata.successfulTranslations
             = Len(results) - Cardinality(errors)

=============================================================================
